---- MODULE Spec2Model ----
(***************************************************************************)
(* A model of netlib/utils.py: the escape codec (bytes_to_escaped_str,     *)
(* escaped_str_to_bytes), clean_bin, the hexdump generator, is_valid_host  *)
(* and the BiDi mapping.                                                   *)
(*                                                                         *)
(* Byte strings and text strings are sequences of integers: byte values    *)
(* (0..255) and Unicode code points.  A Python value that a function       *)
(* dispatches on by type is a record [type, val]; the outcome of a call is *)
(* a record [kind |-> "ok", val |-> ...] or [kind |-> <exception name>].   *)
(***************************************************************************)
EXTENDS Integers, Sequences, FiniteSets

VARIABLES
    PY3,        \* six.PY3: the interpreter the module runs on
    data,       \* codec: the argument of bytes_to_escaped_str
    escaped,    \* codec: the outcome of bytes_to_escaped_str(data)
    decoded,    \* codec: the outcome of escaped_str_to_bytes, on escaped.val
                \* or on data itself
    cin,        \* clean_bin: the argument s
    keep,       \* clean_bin: the argument keep_spacing
    cout,       \* clean_bin: the outcome of clean_bin(cin, keep)
    cout2,      \* clean_bin: the outcome of clean_bin(cout.val, keep)
    hs,         \* hexdump: the argument s
    gen,        \* hexdump: the generator object returned by hexdump(hs)
    passes,     \* hexdump: the records each iteration over gen received
    host,       \* is_valid_host: the argument
    hostRes,    \* is_valid_host: the outcome
    kwargs,     \* BiDi: the constructor's keyword arguments, in order
    bidi,       \* BiDi: the outcome of the constructor
    lookup      \* BiDi: the last get_name call and its result

vars == <<PY3, data, escaped, decoded, cin, keep, cout, cout2,
          hs, gen, passes, host, hostRes, kwargs, bidi, lookup>>

codecVars == <<data, escaped, decoded>>
cleanVars == <<cin, keep, cout, cout2>>
hexVars   == <<hs, gen, passes>>
hostVars  == <<host, hostRes>>
bidiVars  == <<kwargs, bidi, lookup>>

(***************************************************************************)
(* Bounds of the model.                                                    *)
(***************************************************************************)
MaxLen == 3
MaxHexLen == 33
MaxPasses == 2
MaxHostLen == 4
MaxLabels == 4
MaxNames == 3
MaxValue == 3

(***************************************************************************)
(* Characters, by code.                                                    *)
(***************************************************************************)
TAB == 9
LF == 10
CR == 13
SPACE == 32
DQUOTE == 34
SQUOTE == 39
DOT == 46
BACKSLASH == 92
DEL == 127

NoResult == [kind |-> "none"]
Ok(v) == [kind |-> "ok", val |-> v]
Raise(e) == [kind |-> e]

Bytes(v) == [type |-> "bytes", val |-> v]
Text(v) == [type |-> "text", val |-> v]

\* The sequences over alphabet A of length at most n.
SeqsUpTo(A, n) == UNION {[1..k -> A] : k \in 0..n}

RECURSIVE Concat(_)
\* "".join(parts), computed by halves.
Concat(parts) ==
    LET n == Len(parts) IN
    IF n = 0 THEN <<>>
    ELSE IF n = 1 THEN parts[1]
    ELSE Concat(SubSeq(parts, 1, n \div 2)) \o Concat(SubSeq(parts, (n \div 2) + 1, n))

\* s.count(c)
Count(s, c) == Cardinality({i \in 1..Len(s) : s[i] = c})

\* Python's s[a:b] for 0 <= a and any b (a negative b counts from the end).
Slice(s, a, b) ==
    LET n == Len(s)
        lo == IF a > n THEN n ELSE a
        hi0 == IF b < 0 THEN n + b ELSE b
        hi == IF hi0 < 0 THEN 0 ELSE IF hi0 > n THEN n ELSE hi0
    IN  IF lo >= hi THEN <<>> ELSE SubSeq(s, lo + 1, hi)

RECURSIVE Lstrip(_, _)
\* s.lstrip(chars): every leading character that is in chars is removed.
Lstrip(s, chars) ==
    IF s # <<>> /\ Head(s) \in chars THEN Lstrip(Tail(s), chars) ELSE s

\* "0123456789abcdef"
HexDigits == <<48, 49, 50, 51, 52, 53, 54, 55, 56, 57, 97, 98, 99, 100, 101, 102>>

(***************************************************************************)
(* The escape codec.                                                       *)
(***************************************************************************)

\* The quote repr() puts around a byte string: a single quote, unless the
\* string holds a single quote and no double quote.
ReprQuote(b) ==
    IF (\E i \in 1..Len(b) : b[i] = SQUOTE) /\ ~(\E i \in 1..Len(b) : b[i] = DQUOTE)
    THEN DQUOTE ELSE SQUOTE

ReprByte_rawbackslash(c, q) ==
    IF c = q THEN <<BACKSLASH, c>>
    ELSE IF c = TAB THEN <<BACKSLASH, 116>>
    ELSE IF c = LF THEN <<BACKSLASH, 110>>
    ELSE IF c = CR THEN <<BACKSLASH, 114>>
    ELSE IF c < SPACE \/ c >= DEL
         THEN <<BACKSLASH, 120, HexDigits[(c \div 16) + 1], HexDigits[(c % 16) + 1]>>
    ELSE <<c>>

\* repr()'s text for one byte c of a literal quoted with q.
ReprByte(c, q) ==
    IF c = q \/ c = BACKSLASH THEN <<BACKSLASH, c>>
    ELSE IF c = TAB THEN <<BACKSLASH, 116>>
    ELSE IF c = LF THEN <<BACKSLASH, 110>>
    ELSE IF c = CR THEN <<BACKSLASH, 114>>
    ELSE IF c < SPACE \/ c >= DEL
         THEN <<BACKSLASH, 120, HexDigits[(c \div 16) + 1], HexDigits[(c % 16) + 1]>>
    ELSE <<c>>

\* repr(b) of a byte string: b'...' on Python 3, '...' on Python 2.
Repr(b) ==
    LET q == ReprQuote(b)
    IN  (IF PY3 THEN <<98>> ELSE <<>>) \o <<q>>
        \o Concat([i \in 1..Len(b) |-> ReprByte(b[i], q)]) \o <<q>>

\* The type of a native str: text on Python 3, bytes on Python 2.
NativeStr == IF PY3 THEN "text" ELSE "bytes"

\* isinstance(data, bytes)
IsBytes(d) == d.type = "bytes"

\* isinstance(data, six.string_types): str on Python 3, basestring on Python 2.
IsString(d) == IF PY3 THEN d.type = "text" ELSE d.type \in {"bytes", "text"}

bytes_to_escaped_str_drop1(d) ==
    IF ~IsBytes(d) THEN Raise("ValueError")
    ELSE Ok([type |-> NativeStr,
             val |-> Slice(Lstrip(Repr(<<DQUOTE>> \o d.val), {98}), 1, -1)])

bytes_to_escaped_str_noprefix(d) ==
    IF ~IsBytes(d) THEN Raise("ValueError")
    ELSE Ok([type |-> NativeStr,
             val |-> Slice(Lstrip(Repr(d.val), {98}), 1, -1)])

bytes_to_escaped_str_typeerror(d) ==
    IF ~IsBytes(d) THEN Raise("TypeError")
    ELSE Ok([type |-> NativeStr,
             val |-> Slice(Lstrip(Repr(<<DQUOTE>> \o d.val), {98}), 2, -1)])

\* bytes_to_escaped_str(data)
bytes_to_escaped_str(d) ==
    IF ~IsBytes(d) THEN Raise("ValueError")
    ELSE Ok([type |-> NativeStr,
             val |-> Slice(Lstrip(Repr(<<DQUOTE>> \o d.val), {98}), 2, -1)])

\* A surrogate code point, U+D800..U+DFFF.
IsSurrogate(cp) == cp >= 55296 /\ cp <= 57343

\* The UTF-8 encoding of one code point: one to four bytes.  Python 3 refuses
\* to encode a surrogate; Python 2 writes its three bytes.
Utf8Char(cp) ==
    IF PY3 /\ IsSurrogate(cp) THEN Raise("UnicodeEncodeError")
    ELSE IF cp < 128 THEN Ok(<<cp>>)
    ELSE IF cp < 2048 THEN Ok(<<192 + (cp \div 64), 128 + (cp % 64)>>)
    ELSE IF cp < 65536
         THEN Ok(<<224 + (cp \div 4096), 128 + ((cp \div 64) % 64),
                   128 + (cp % 64)>>)
    ELSE Ok(<<240 + (cp \div 262144), 128 + ((cp \div 4096) % 64),
              128 + ((cp \div 64) % 64), 128 + (cp % 64)>>)

\* A high surrogate right before a low surrogate at index i of t.  The wide
\* build of Python 2 encodes such a pair as the one character it stands for.
IsSurrogatePair(t, i) ==
    /\ i >= 1 /\ i < Len(t)
    /\ t[i] >= 55296 /\ t[i] <= 56319
    /\ t[i + 1] >= 56320 /\ t[i + 1] <= 57343

\* text.encode("utf8"): the bytes, or the error of the first character that
\* cannot be encoded.
Utf8Encode(t) ==
    IF \E i \in 1..Len(t) : Utf8Char(t[i]).kind # "ok"
    THEN Raise("UnicodeEncodeError")
    ELSE Ok(Concat([i \in 1..Len(t) |->
            IF ~PY3 /\ IsSurrogatePair(t, i)
            THEN Utf8Char(65536 + (t[i] - 55296) * 1024 + (t[i + 1] - 56320)).val
            ELSE IF ~PY3 /\ IsSurrogatePair(t, i - 1) THEN <<>>
            ELSE Utf8Char(t[i]).val]))

\* The value of a hexadecimal digit character, -1 for any other character.
HexVal(c) ==
    IF c >= 48 /\ c <= 57 THEN c - 48
    ELSE IF c >= 97 /\ c <= 102 THEN c - 87
    ELSE IF c >= 65 /\ c <= 70 THEN c - 55
    ELSE -1

IsOctal(c) == c >= 48 /\ c <= 55

RECURSIVE EscapeScan(_, _, _)
\* The decoder's loop over s from index i (1-based), with the bytes produced
\* so far in acc: the bytes, or <<-1>> when an escape is malformed.
EscapeScan(s, i, acc) ==
    IF i > Len(s) THEN acc
    ELSE IF s[i] # BACKSLASH THEN EscapeScan(s, i + 1, Append(acc, s[i]))
    ELSE IF i = Len(s) THEN <<-1>>                      \* Trailing \ in string
    ELSE LET c == s[i + 1] IN
         IF c = LF THEN EscapeScan(s, i + 2, acc)
         ELSE IF c = BACKSLASH \/ c = SQUOTE \/ c = DQUOTE
              THEN EscapeScan(s, i + 2, Append(acc, c))
         ELSE IF c = 98 THEN EscapeScan(s, i + 2, Append(acc, 8))
         ELSE IF c = 102 THEN EscapeScan(s, i + 2, Append(acc, 12))
         ELSE IF c = 116 THEN EscapeScan(s, i + 2, Append(acc, TAB))
         ELSE IF c = 110 THEN EscapeScan(s, i + 2, Append(acc, LF))
         ELSE IF c = 114 THEN EscapeScan(s, i + 2, Append(acc, CR))
         ELSE IF c = 118 THEN EscapeScan(s, i + 2, Append(acc, 11))
         ELSE IF c = 97 THEN EscapeScan(s, i + 2, Append(acc, 7))
         ELSE IF IsOctal(c) THEN
              LET two == i + 2 <= Len(s) /\ IsOctal(s[i + 2])
                  three == two /\ i + 3 <= Len(s) /\ IsOctal(s[i + 3])
                  v == IF three
                       THEN (c - 48) * 64 + (s[i + 2] - 48) * 8 + (s[i + 3] - 48)
                       ELSE IF two THEN (c - 48) * 8 + (s[i + 2] - 48)
                       ELSE c - 48
                  used == IF three THEN 4 ELSE IF two THEN 3 ELSE 2
              IN  EscapeScan(s, i + used, Append(acc, v % 256))
         ELSE IF c = 120 THEN
              IF i + 3 <= Len(s) /\ HexVal(s[i + 2]) >= 0 /\ HexVal(s[i + 3]) >= 0
              THEN EscapeScan(s, i + 4,
                              Append(acc, HexVal(s[i + 2]) * 16 + HexVal(s[i + 3])))
              ELSE <<-1>>                               \* invalid \x escape
         ELSE EscapeScan(s, i + 2, acc \o <<BACKSLASH, c>>)

\* codecs.escape_decode(s)[0] and str.decode("string-escape") of Python 2.
EscapeDecode(s) ==
    LET r == EscapeScan(s, 1, <<>>)
    IN  IF r = <<-1>> THEN Raise("ValueError") ELSE Ok(Bytes(r))

\* escaped_str_to_bytes(data): a text string is encoded as UTF-8 before it is
\* unescaped.
escaped_str_to_bytes(d) ==
    IF ~IsString(d) THEN Raise("ValueError")
    ELSE IF d.type = "text" THEN
        LET e == Utf8Encode(d.val)
        IN  IF e.kind = "ok" THEN EscapeDecode(e.val) ELSE e
    ELSE EscapeDecode(d.val)

\* The byte values the codec's inputs are built from: NUL, newline, the two
\* quotes, the digit 1, backslash, b, n, x and 0xff.
CodecAlphabet == {0, LF, DQUOTE, SQUOTE, 49, BACKSLASH, 98, 110, 120, 255}

\* Every byte value, as a buffer of one byte.
SingleBytes == {<<b>> : b \in 0..255}

\* The buffer of all 256 byte values in order.
AllBytes == [k \in 1..256 |-> k - 1]

\* Code points of every length of UTF-8 encoding: e-acute, the euro sign, the
\* surrogates U+D800 and U+DFFF, U+E000, U+FFFF, U+10000, U+1F600 and U+10FFFF.
CodecChars == {233, 8364, 55296, 57343, 57344, 65535, 65536, 128512, 1114111}

CodecInputs ==
    {Bytes(v) : v \in SeqsUpTo(CodecAlphabet, MaxLen) \cup SingleBytes}
    \cup {Text(v) : v \in SeqsUpTo(CodecAlphabet, 1)}
    \cup {Text(v) : v \in SeqsUpTo(CodecChars \cup {BACKSLASH, 120}, 2)}
    \cup {[type |-> "int", val |-> <<>>]}

CodecIdle == data = Bytes(<<>>) /\ escaped = NoResult /\ decoded = NoResult
CleanIdle == cin = Bytes(<<>>) /\ keep = TRUE /\ cout = NoResult /\ cout2 = NoResult
HexIdle == hs = <<>> /\ gen = [i |-> 0, state |-> "created"] /\ passes = <<>>
HostIdle == host = <<>> /\ hostRes = NoResult
BidiIdle == kwargs = <<>> /\ bidi = NoResult /\ lookup = NoResult

InitCodec ==
    /\ PY3 \in BOOLEAN
    /\ data \in CodecInputs
    /\ escaped = NoResult
    /\ decoded = NoResult
    /\ CleanIdle /\ HexIdle /\ HostIdle /\ BidiIdle

\* A call bytes_to_escaped_str(data).
Encode ==
    /\ escaped = NoResult
    /\ escaped' = bytes_to_escaped_str(data)
    /\ UNCHANGED <<PY3, data, decoded, cleanVars, hexVars, hostVars, bidiVars>>

\* A call escaped_str_to_bytes on the string Encode returned.
Decode ==
    /\ escaped.kind = "ok"
    /\ decoded = NoResult
    /\ decoded' = escaped_str_to_bytes(escaped.val)
    /\ UNCHANGED <<PY3, data, escaped, cleanVars, hexVars, hostVars, bidiVars>>

\* A call escaped_str_to_bytes(data) on an input that is not a byte buffer.
DecodeInput ==
    /\ ~IsBytes(data)
    /\ decoded = NoResult
    /\ decoded' = escaped_str_to_bytes(data)
    /\ UNCHANGED <<PY3, data, escaped, cleanVars, hexVars, hostVars, bidiVars>>

NextCodec == Encode \/ Decode \/ DecodeInput

SpecCodec == InitCodec /\ [][NextCodec]_vars

\* The number of consecutive backslashes that end right before index i of s.
RECURSIVE BackslashRun(_, _)
BackslashRun(s, i) ==
    IF i > 1 /\ s[i - 1] = BACKSLASH THEN 1 + BackslashRun(s, i - 1) ELSE 0

Has(s, c) == \E i \in 1..Len(s) : s[i] = c

\* C1: decoding the encoding of a byte buffer gives the buffer back:
\* escaped_str_to_bytes(bytes_to_escaped_str(B)) == B for every byte buffer B.
C1_RoundTrip ==
    (IsBytes(data) /\ decoded.kind # "none") => decoded = Ok(data)

\* C1 witness: a buffer holding a single quote, a double quote and a
\* backslash has been encoded and decoded back to itself.
C1_Witness ==
    /\ IsBytes(data)
    /\ Has(data.val, SQUOTE) /\ Has(data.val, DQUOTE) /\ Has(data.val, BACKSLASH)
    /\ decoded = Ok(data)

\* C2: every single quote of bytes_to_escaped_str(B) is preceded by an odd
\* number of backslashes, and the output ends in an even number of them, so
\* that the closing quote of "'" + output + "'" is the first unescaped one.
C2_QuoteSafe ==
    escaped.kind = "ok" =>
        LET out == escaped.val.val IN
        /\ \A i \in 1..Len(out) :
              out[i] = SQUOTE => BackslashRun(out, i) % 2 = 1
        /\ BackslashRun(out, Len(out) + 1) % 2 = 0

\* C2 witness: a buffer with a backslash right before a single quote has been
\* encoded.
C2_Witness ==
    /\ escaped.kind = "ok"
    /\ \E i \in 1..(Len(data.val) - 1) :
          data.val[i] = BACKSLASH /\ data.val[i + 1] = SQUOTE

\* C3: bytes_to_escaped_str(B) holds exactly one double quote per 0x22 byte
\* of B, each preceded by an even number of backslashes (so not escaped); the
\* double quote prepended internally is not among them.
C3_DoubleQuoteUnescaped ==
    escaped.kind = "ok" =>
        LET out == escaped.val.val IN
        /\ Count(out, DQUOTE) = Count(data.val, DQUOTE)
        /\ \A i \in 1..Len(out) :
              out[i] = DQUOTE => BackslashRun(out, i) % 2 = 0

\* C3 witness: a buffer with a backslash right before a double quote has been
\* encoded.
C3_Witness ==
    /\ escaped.kind = "ok"
    /\ \E i \in 1..(Len(data.val) - 1) :
          data.val[i] = BACKSLASH /\ data.val[i + 1] = DQUOTE

\* C4 as claimed: bytes_to_escaped_str of an argument that is not a byte
\* string fails with a TypeError.
C4_RaisesTypeError ==
    (escaped.kind # "none" /\ ~IsBytes(data)) => escaped.kind = "TypeError"

\* C4 amended: bytes_to_escaped_str of an argument that is not a byte string
\* fails with a ValueError and returns nothing.
C4_RaisesValueError ==
    (escaped.kind # "none" /\ ~IsBytes(data)) => escaped = Raise("ValueError")

\* C4 witness: the call was made on a text string and raised ValueError.
C4_Witness ==
    data.type = "text" /\ data.val # <<>> /\ escaped.kind = "ValueError"

(***************************************************************************)
(* clean_bin                                                               *)
(***************************************************************************)

RECURSIVE Join(_, _)
\* sep.join(parts), computed by halves.
Join(sep, parts) ==
    LET n == Len(parts) IN
    IF n = 0 THEN <<>>
    ELSE IF n = 1 THEN parts[1]
    ELSE Join(sep, SubSeq(parts, 1, n \div 2)) \o sep
         \o Join(sep, SubSeq(parts, (n \div 2) + 1, n))

\* c lies in one of the ranges of the table, which lists the first and the
\* last code point of every range, one range after the other.
InRanges(c, table) ==
    \E i \in 1..(Len(table) \div 2) : table[2 * i - 1] <= c /\ c <= table[2 * i]

\* The ranges of code points whose general category starts with C or Z
\* (Cc, Cf, Cs, Co, Cn, Zs, Zl, Zp), over U+0000..U+10FFFF, in the Unicode
\* database 14.0.0 that unicodedata carries in Python 3.11.  Other releases
\* of Python tell the unassigned code points (Cn) of their own database.
CategoryCZ == <<
    0, 32, 127, 160, 173, 173, 888, 889, 896, 899, 907, 907,
    909, 909, 930, 930, 1328, 1328, 1367, 1368, 1419, 1420, 1424, 1424,
    1480, 1487, 1515, 1518, 1525, 1541, 1564, 1564, 1757, 1757, 1806, 1807,
    1867, 1868, 1970, 1983, 2043, 2044, 2094, 2095, 2111, 2111, 2140, 2141,
    2143, 2143, 2155, 2159, 2191, 2199, 2274, 2274, 2436, 2436, 2445, 2446,
    2449, 2450, 2473, 2473, 2481, 2481, 2483, 2485, 2490, 2491, 2501, 2502,
    2505, 2506, 2511, 2518, 2520, 2523, 2526, 2526, 2532, 2533, 2559, 2560,
    2564, 2564, 2571, 2574, 2577, 2578, 2601, 2601, 2609, 2609, 2612, 2612,
    2615, 2615, 2618, 2619, 2621, 2621, 2627, 2630, 2633, 2634, 2638, 2640,
    2642, 2648, 2653, 2653, 2655, 2661, 2679, 2688, 2692, 2692, 2702, 2702,
    2706, 2706, 2729, 2729, 2737, 2737, 2740, 2740, 2746, 2747, 2758, 2758,
    2762, 2762, 2766, 2767, 2769, 2783, 2788, 2789, 2802, 2808, 2816, 2816,
    2820, 2820, 2829, 2830, 2833, 2834, 2857, 2857, 2865, 2865, 2868, 2868,
    2874, 2875, 2885, 2886, 2889, 2890, 2894, 2900, 2904, 2907, 2910, 2910,
    2916, 2917, 2936, 2945, 2948, 2948, 2955, 2957, 2961, 2961, 2966, 2968,
    2971, 2971, 2973, 2973, 2976, 2978, 2981, 2983, 2987, 2989, 3002, 3005,
    3011, 3013, 3017, 3017, 3022, 3023, 3025, 3030, 3032, 3045, 3067, 3071,
    3085, 3085, 3089, 3089, 3113, 3113, 3130, 3131, 3141, 3141, 3145, 3145,
    3150, 3156, 3159, 3159, 3163, 3164, 3166, 3167, 3172, 3173, 3184, 3190,
    3213, 3213, 3217, 3217, 3241, 3241, 3252, 3252, 3258, 3259, 3269, 3269,
    3273, 3273, 3278, 3284, 3287, 3292, 3295, 3295, 3300, 3301, 3312, 3312,
    3315, 3327, 3341, 3341, 3345, 3345, 3397, 3397, 3401, 3401, 3408, 3411,
    3428, 3429, 3456, 3456, 3460, 3460, 3479, 3481, 3506, 3506, 3516, 3516,
    3518, 3519, 3527, 3529, 3531, 3534, 3541, 3541, 3543, 3543, 3552, 3557,
    3568, 3569, 3573, 3584, 3643, 3646, 3676, 3712, 3715, 3715, 3717, 3717,
    3723, 3723, 3748, 3748, 3750, 3750, 3774, 3775, 3781, 3781, 3783, 3783,
    3790, 3791, 3802, 3803, 3808, 3839, 3912, 3912, 3949, 3952, 3992, 3992,
    4029, 4029, 4045, 4045, 4059, 4095, 4294, 4294, 4296, 4300, 4302, 4303,
    4681, 4681, 4686, 4687, 4695, 4695, 4697, 4697, 4702, 4703, 4745, 4745,
    4750, 4751, 4785, 4785, 4790, 4791, 4799, 4799, 4801, 4801, 4806, 4807,
    4823, 4823, 4881, 4881, 4886, 4887, 4955, 4956, 4989, 4991, 5018, 5023,
    5110, 5111, 5118, 5119, 5760, 5760, 5789, 5791, 5881, 5887, 5910, 5918,
    5943, 5951, 5972, 5983, 5997, 5997, 6001, 6001, 6004, 6015, 6110, 6111,
    6122, 6127, 6138, 6143, 6158, 6158, 6170, 6175, 6265, 6271, 6315, 6319,
    6390, 6399, 6431, 6431, 6444, 6447, 6460, 6463, 6465, 6467, 6510, 6511,
    6517, 6527, 6572, 6575, 6602, 6607, 6619, 6621, 6684, 6685, 6751, 6751,
    6781, 6782, 6794, 6799, 6810, 6815, 6830, 6831, 6863, 6911, 6989, 6991,
    7039, 7039, 7156, 7163, 7224, 7226, 7242, 7244, 7305, 7311, 7355, 7356,
    7368, 7375, 7419, 7423, 7958, 7959, 7966, 7967, 8006, 8007, 8014, 8015,
    8024, 8024, 8026, 8026, 8028, 8028, 8030, 8030, 8062, 8063, 8117, 8117,
    8133, 8133, 8148, 8149, 8156, 8156, 8176, 8177, 8181, 8181, 8191, 8207,
    8232, 8239, 8287, 8303, 8306, 8307, 8335, 8335, 8349, 8351, 8385, 8399,
    8433, 8447, 8588, 8591, 9255, 9279, 9291, 9311, 11124, 11125, 11158, 11158,
    11508, 11512, 11558, 11558, 11560, 11564, 11566, 11567, 11624, 11630, 11633, 11646,
    11671, 11679, 11687, 11687, 11695, 11695, 11703, 11703, 11711, 11711, 11719, 11719,
    11727, 11727, 11735, 11735, 11743, 11743, 11870, 11903, 11930, 11930, 12020, 12031,
    12246, 12271, 12284, 12288, 12352, 12352, 12439, 12440, 12544, 12548, 12592, 12592,
    12687, 12687, 12772, 12783, 12831, 12831, 42125, 42127, 42183, 42191, 42540, 42559,
    42744, 42751, 42955, 42959, 42962, 42962, 42964, 42964, 42970, 42993, 43053, 43055,
    43066, 43071, 43128, 43135, 43206, 43213, 43226, 43231, 43348, 43358, 43389, 43391,
    43470, 43470, 43482, 43485, 43519, 43519, 43575, 43583, 43598, 43599, 43610, 43611,
    43715, 43738, 43767, 43776, 43783, 43784, 43791, 43792, 43799, 43807, 43815, 43815,
    43823, 43823, 43884, 43887, 44014, 44015, 44026, 44031, 55204, 55215, 55239, 55242,
    55292, 63743, 64110, 64111, 64218, 64255, 64263, 64274, 64280, 64284, 64311, 64311,
    64317, 64317, 64319, 64319, 64322, 64322, 64325, 64325, 64451, 64466, 64912, 64913,
    64968, 64974, 64976, 65007, 65050, 65055, 65107, 65107, 65127, 65127, 65132, 65135,
    65141, 65141, 65277, 65280, 65471, 65473, 65480, 65481, 65488, 65489, 65496, 65497,
    65501, 65503, 65511, 65511, 65519, 65531, 65534, 65535, 65548, 65548, 65575, 65575,
    65595, 65595, 65598, 65598, 65614, 65615, 65630, 65663, 65787, 65791, 65795, 65798,
    65844, 65846, 65935, 65935, 65949, 65951, 65953, 65999, 66046, 66175, 66205, 66207,
    66257, 66271, 66300, 66303, 66340, 66348, 66379, 66383, 66427, 66431, 66462, 66462,
    66500, 66503, 66518, 66559, 66718, 66719, 66730, 66735, 66772, 66775, 66812, 66815,
    66856, 66863, 66916, 66926, 66939, 66939, 66955, 66955, 66963, 66963, 66966, 66966,
    66978, 66978, 66994, 66994, 67002, 67002, 67005, 67071, 67383, 67391, 67414, 67423,
    67432, 67455, 67462, 67462, 67505, 67505, 67515, 67583, 67590, 67591, 67593, 67593,
    67638, 67638, 67641, 67643, 67645, 67646, 67670, 67670, 67743, 67750, 67760, 67807,
    67827, 67827, 67830, 67834, 67868, 67870, 67898, 67902, 67904, 67967, 68024, 68027,
    68048, 68049, 68100, 68100, 68103, 68107, 68116, 68116, 68120, 68120, 68150, 68151,
    68155, 68158, 68169, 68175, 68185, 68191, 68256, 68287, 68327, 68330, 68343, 68351,
    68406, 68408, 68438, 68439, 68467, 68471, 68498, 68504, 68509, 68520, 68528, 68607,
    68681, 68735, 68787, 68799, 68851, 68857, 68904, 68911, 68922, 69215, 69247, 69247,
    69290, 69290, 69294, 69295, 69298, 69375, 69416, 69423, 69466, 69487, 69514, 69551,
    69580, 69599, 69623, 69631, 69710, 69713, 69750, 69758, 69821, 69821, 69827, 69839,
    69865, 69871, 69882, 69887, 69941, 69941, 69960, 69967, 70007, 70015, 70112, 70112,
    70133, 70143, 70162, 70162, 70207, 70271, 70279, 70279, 70281, 70281, 70286, 70286,
    70302, 70302, 70314, 70319, 70379, 70383, 70394, 70399, 70404, 70404, 70413, 70414,
    70417, 70418, 70441, 70441, 70449, 70449, 70452, 70452, 70458, 70458, 70469, 70470,
    70473, 70474, 70478, 70479, 70481, 70486, 70488, 70492, 70500, 70501, 70509, 70511,
    70517, 70655, 70748, 70748, 70754, 70783, 70856, 70863, 70874, 71039, 71094, 71095,
    71134, 71167, 71237, 71247, 71258, 71263, 71277, 71295, 71354, 71359, 71370, 71423,
    71451, 71452, 71468, 71471, 71495, 71679, 71740, 71839, 71923, 71934, 71943, 71944,
    71946, 71947, 71956, 71956, 71959, 71959, 71990, 71990, 71993, 71994, 72007, 72015,
    72026, 72095, 72104, 72105, 72152, 72153, 72165, 72191, 72264, 72271, 72355, 72367,
    72441, 72703, 72713, 72713, 72759, 72759, 72774, 72783, 72813, 72815, 72848, 72849,
    72872, 72872, 72887, 72959, 72967, 72967, 72970, 72970, 73015, 73017, 73019, 73019,
    73022, 73022, 73032, 73039, 73050, 73055, 73062, 73062, 73065, 73065, 73103, 73103,
    73106, 73106, 73113, 73119, 73130, 73439, 73465, 73647, 73649, 73663, 73714, 73726,
    74650, 74751, 74863, 74863, 74869, 74879, 75076, 77711, 77811, 77823, 78895, 82943,
    83527, 92159, 92729, 92735, 92767, 92767, 92778, 92781, 92863, 92863, 92874, 92879,
    92910, 92911, 92918, 92927, 92998, 93007, 93018, 93018, 93026, 93026, 93048, 93052,
    93072, 93759, 93851, 93951, 94027, 94030, 94088, 94094, 94112, 94175, 94181, 94191,
    94194, 94207, 100344, 100351, 101590, 101631, 101641, 110575, 110580, 110580, 110588, 110588,
    110591, 110591, 110883, 110927, 110931, 110947, 110952, 110959, 111356, 113663, 113771, 113775,
    113789, 113791, 113801, 113807, 113818, 113819, 113824, 118527, 118574, 118575, 118599, 118607,
    118724, 118783, 119030, 119039, 119079, 119080, 119155, 119162, 119275, 119295, 119366, 119519,
    119540, 119551, 119639, 119647, 119673, 119807, 119893, 119893, 119965, 119965, 119968, 119969,
    119971, 119972, 119975, 119976, 119981, 119981, 119994, 119994, 119996, 119996, 120004, 120004,
    120070, 120070, 120075, 120076, 120085, 120085, 120093, 120093, 120122, 120122, 120127, 120127,
    120133, 120133, 120135, 120137, 120145, 120145, 120486, 120487, 120780, 120781, 121484, 121498,
    121504, 121504, 121520, 122623, 122655, 122879, 122887, 122887, 122905, 122906, 122914, 122914,
    122917, 122917, 122923, 123135, 123181, 123183, 123198, 123199, 123210, 123213, 123216, 123535,
    123567, 123583, 123642, 123646, 123648, 124895, 124903, 124903, 124908, 124908, 124911, 124911,
    124927, 124927, 125125, 125126, 125143, 125183, 125260, 125263, 125274, 125277, 125280, 126064,
    126133, 126208, 126270, 126463, 126468, 126468, 126496, 126496, 126499, 126499, 126501, 126502,
    126504, 126504, 126515, 126515, 126520, 126520, 126522, 126522, 126524, 126529, 126531, 126534,
    126536, 126536, 126538, 126538, 126540, 126540, 126544, 126544, 126547, 126547, 126549, 126550,
    126552, 126552, 126554, 126554, 126556, 126556, 126558, 126558, 126560, 126560, 126563, 126563,
    126565, 126566, 126571, 126571, 126579, 126579, 126584, 126584, 126589, 126589, 126591, 126591,
    126602, 126602, 126620, 126624, 126628, 126628, 126634, 126634, 126652, 126703, 126706, 126975,
    127020, 127023, 127124, 127135, 127151, 127152, 127168, 127168, 127184, 127184, 127222, 127231,
    127406, 127461, 127491, 127503, 127548, 127551, 127561, 127567, 127570, 127583, 127590, 127743,
    128728, 128732, 128749, 128751, 128765, 128767, 128884, 128895, 128985, 128991, 129004, 129007,
    129009, 129023, 129036, 129039, 129096, 129103, 129114, 129119, 129160, 129167, 129198, 129199,
    129202, 129279, 129620, 129631, 129646, 129647, 129653, 129655, 129661, 129663, 129671, 129679,
    129709, 129711, 129723, 129727, 129734, 129743, 129754, 129759, 129768, 129775, 129783, 129791,
    129939, 129939, 129995, 130031, 130042, 131071, 173792, 173823, 177977, 177983, 178206, 178207,
    183970, 183983, 191457, 194559, 195102, 196607, 201547, 917759, 918000, 1114111>>

\* unicodedata.category(ch)[0] in "CZ"
CategoryInCZ(ch) == InRanges(ch, CategoryCZ)

clean_bin_le31(s, keep_spacing) ==
    IF s.type = "text" THEN
        LET keepc == IF keep_spacing THEN {SPACE, LF, CR, TAB} ELSE {SPACE}
        IN  Text(Join(<<>>, [i \in 1..Len(s.val) |->
                IF ~CategoryInCZ(s.val[i]) \/ s.val[i] \in keepc
                THEN <<s.val[i]>> ELSE <<DOT>>]))
    ELSE
        LET keepb == IF keep_spacing THEN {TAB, LF, CR} ELSE {}
        IN  Bytes(Join(<<>>, [i \in 1..Len(s.val) |->
                IF (31 <= s.val[i] /\ s.val[i] < DEL) \/ s.val[i] \in keepb
                THEN <<s.val[i]>> ELSE <<DOT>>]))

clean_bin_dotjoin(s, keep_spacing) ==
    IF s.type = "text" THEN
        LET keepc == IF keep_spacing THEN {SPACE, LF, CR, TAB} ELSE {SPACE}
        IN  Text(Join(<<DOT>>, [i \in 1..Len(s.val) |->
                IF ~CategoryInCZ(s.val[i]) \/ s.val[i] \in keepc
                THEN <<s.val[i]>> ELSE <<DOT>>]))
    ELSE
        LET keepb == IF keep_spacing THEN {TAB, LF, CR} ELSE {}
        IN  Bytes(Join(<<DOT>>, [i \in 1..Len(s.val) |->
                IF (31 < s.val[i] /\ s.val[i] < DEL) \/ s.val[i] \in keepb
                THEN <<s.val[i]>> ELSE <<DOT>>]))

\* clean_bin(s, keep_spacing)
clean_bin(s, keep_spacing) ==
    IF s.type = "text" THEN
        LET keepc == IF keep_spacing THEN {SPACE, LF, CR, TAB} ELSE {SPACE}
        IN  Text(Join(<<>>, [i \in 1..Len(s.val) |->
                IF ~CategoryInCZ(s.val[i]) \/ s.val[i] \in keepc
                THEN <<s.val[i]>> ELSE <<DOT>>]))
    ELSE
        LET keepb == IF keep_spacing THEN {TAB, LF, CR} ELSE {}
        IN  Bytes(Join(<<>>, [i \in 1..Len(s.val) |->
                IF (31 < s.val[i] /\ s.val[i] < DEL) \/ s.val[i] \in keepb
                THEN <<s.val[i]>> ELSE <<DOT>>]))

\* Byte values around every boundary of the binary branch: tab, newline,
\* carriage return, 31, space, '.', '~', DEL and 0xff.
CleanBytes == {TAB, LF, CR, 31, SPACE, DOT, 126, DEL, 255}

\* Code points of every kind the text branch tells apart: tab, carriage
\* return, space, '.', 'A', no-break space (Zs), soft hyphen (Cf) and the
\* line separator U+2028 (Zl).
CleanChars == {TAB, CR, SPACE, DOT, 65, 160, 173, 8232}

\* Code points beyond Latin-1 of every category in C and Z, and their
\* neighbours outside: U+0377/U+0378 (Ll/Cn), U+0600 (Cf), U+1680 (Zs),
\* U+2029 (Zp), U+3000/U+3001 (Zs/Po), U+D7FF/U+D800/U+DFFF (Cn/Cs/Cs),
\* U+E000 (Co), U+FEFF (Cf), U+FFFD (So), U+1F600 (So), U+E0001 (Cf),
\* U+10FFFF (Cn).
WideChars == {887, 888, 1536, 5760, 8233, 12288, 12289, 55295, 55296, 57343,
              57344, 65279, 65533, 128512, 917505, 1114111}

\* Texts of one character: all of Latin-1, the general punctuation block
\* U+2000..U+206F, and the code points of WideChars.
SingleChars == {<<c>> : c \in (0..255) \cup (8192..8303) \cup WideChars}

CleanInputs ==
    {Bytes(v) : v \in SeqsUpTo(CleanBytes, MaxLen) \cup SingleBytes \cup {AllBytes}}
    \cup {Text(v) : v \in SeqsUpTo(CleanChars, MaxLen) \cup SingleChars
                       \cup SeqsUpTo(WideChars, 2)}

InitClean ==
    /\ PY3 = TRUE
    /\ cin \in CleanInputs
    /\ keep \in BOOLEAN
    /\ cout = NoResult
    /\ cout2 = NoResult
    /\ CodecIdle /\ HexIdle /\ HostIdle /\ BidiIdle

\* A call clean_bin(cin, keep).
CleanBin ==
    /\ cout = NoResult
    /\ cout' = Ok(clean_bin(cin, keep))
    /\ UNCHANGED <<PY3, cin, keep, cout2, codecVars, hexVars, hostVars, bidiVars>>

\* A call of clean_bin on the value the first call returned.
CleanAgain ==
    /\ cout.kind = "ok"
    /\ cout2 = NoResult
    /\ cout2' = Ok(clean_bin(cout.val, keep))
    /\ UNCHANGED <<PY3, cin, keep, cout, codecVars, hexVars, hostVars, bidiVars>>

NextClean == CleanBin \/ CleanAgain

SpecClean == InitClean /\ [][NextClean]_vars

\* C5: on a byte buffer s, clean_bin(s, keep_spacing) is a byte buffer as long
\* as s that keeps the byte at index i when 31 < s[i] < 127, or when
\* keep_spacing holds and s[i] is 9, 10 or 13, and has '.' there otherwise.
C5_CleanBinBytes ==
    (IsBytes(cin) /\ cout.kind = "ok") =>
        /\ cout.val.type = "bytes"
        /\ Len(cout.val.val) = Len(cin.val)
        /\ \A i \in 1..Len(cin.val) :
              LET b == cin.val[i] IN
              cout.val.val[i] =
                  IF (31 < b /\ b < 127) \/ (keep /\ b \in {9, 10, 13})
                  THEN b ELSE 46

\* C5 witness: clean_bin has run with keep_spacing on a byte buffer that
\* holds a tab, the byte 31 and the byte 127.
C5_Witness ==
    /\ IsBytes(cin) /\ keep /\ cout.kind = "ok"
    /\ Has(cin.val, TAB) /\ Has(cin.val, 31) /\ Has(cin.val, DEL)

\* C6: clean_bin is idempotent: cleaning the cleaned value with the same
\* keep_spacing changes nothing, for byte buffers and for text.
C6_CleanBinIdempotent ==
    cout2.kind = "ok" => cout2 = cout

\* C6 witness: a text holding a no-break space and a tab was cleaned without
\* keep_spacing, which changed it, and was cleaned again.
C6_Witness ==
    /\ cin.type = "text" /\ ~keep /\ cout2.kind = "ok"
    /\ Has(cin.val, 160) /\ Has(cin.val, TAB)
    /\ cout.val # cin

(***************************************************************************)
(* hexdump                                                                 *)
(***************************************************************************)

\* The bytes hexdump takes per record, and the widths of its two fields.
ChunkSize == 16
OffsetWidth == 10
HexWidth == 47

RECURSIVE ToHex(_)
\* The lowercase hexadecimal digits of n >= 0, without padding.
ToHex(n) ==
    IF n < 16 THEN <<HexDigits[n + 1]>>
    ELSE ToHex(n \div 16) \o <<HexDigits[(n % 16) + 1]>>

\* "{:0=<width>x}".format(n).encode(): zero-padded on the left to width,
\* never cut.
FormatHex(n, width) ==
    LET d == ToHex(n)
    IN  IF Len(d) >= width THEN d ELSE [k \in 1..(width - Len(d)) |-> 48] \o d

\* x.ljust(width)
Ljust(x, width) ==
    IF Len(x) >= width THEN x ELSE x \o [k \in 1..(width - Len(x)) |-> SPACE]

HexRecord_chunk15(s, i) ==
    LET part == Slice(s, i, i + 15)
        x == Join(<<SPACE>>, [k \in 1..Len(part) |-> FormatHex(part[k], 2)])
    IN  <<FormatHex(i, OffsetWidth), Ljust(x, HexWidth),
          clean_bin(Bytes(part), FALSE).val>>

\* The tuple the loop body yields for the range value i (0-based).
HexRecord(s, i) ==
    LET part == Slice(s, i, i + ChunkSize)
        x == Join(<<SPACE>>, [k \in 1..Len(part) |-> FormatHex(part[k], 2)])
    IN  <<FormatHex(i, OffsetWidth), Ljust(x, HexWidth),
          clean_bin(Bytes(part), FALSE).val>>

\* The generator object a call hexdump(s) returns: not yet started, with the
\* range at 0.
NewGen == [i |-> 0, state |-> "created"]

GenStep_restart(s, g) ==
    IF g.state # "finished" /\ g.i < Len(s)
    THEN [gen |-> [i |-> g.i + ChunkSize, state |-> "suspended"],
          rec |-> <<HexRecord(s, g.i)>>]
    ELSE IF g.state # "finished"
    THEN [gen |-> [i |-> g.i, state |-> "finished"], rec |-> <<>>]
    ELSE IF Len(s) > 0
    THEN [gen |-> [i |-> ChunkSize, state |-> "suspended"],
          rec |-> <<HexRecord(s, 0)>>]
    ELSE [gen |-> g, rec |-> <<>>]

\* next(g) on the generator of hexdump(s): the generator afterwards and the
\* record it yielded (<<>> when it raised StopIteration).  The body runs to
\* its next yield; a generator that has returned stays finished.
GenStep(s, g) ==
    IF g.state # "finished" /\ g.i < Len(s)
    THEN [gen |-> [i |-> g.i + ChunkSize, state |-> "suspended"],
          rec |-> <<HexRecord(s, g.i)>>]
    ELSE [gen |-> [i |-> g.i, state |-> "finished"], rec |-> <<>>]

\* The byte values the dumped buffers are built from.
HexByteList == <<0, 10, 32, 65, 171, 255>>

\* The buffer of n bytes that walks HexByteList from start in steps of stride.
Pattern(n, start, stride) ==
    [k \in 1..n |-> HexByteList[((start + stride * (k - 1)) % Len(HexByteList)) + 1]]

HexInputs ==
    {Pattern(n, start, stride) :
        n \in 0..MaxHexLen, start \in 0..(Len(HexByteList) - 1), stride \in {0, 1}}
    \cup {AllBytes}

InitHex ==
    /\ PY3 = TRUE
    /\ hs \in HexInputs
    /\ gen = NewGen
    /\ passes = <<>>
    /\ CodecIdle /\ CleanIdle /\ HostIdle /\ BidiIdle

\* A for loop (or list(), or iter()) starts over the generator object; the
\* loop before it, if any, is left where it was.  iter(gen) is gen itself.
IterBegin ==
    /\ Len(passes) < MaxPasses
    /\ passes' = Append(passes, [records |-> <<>>, stopped |-> FALSE])
    /\ UNCHANGED <<PY3, hs, gen, codecVars, cleanVars, hostVars, bidiVars>>

\* The running loop asks the generator for its next record.
IterNext ==
    /\ passes # <<>>
    /\ ~passes[Len(passes)].stopped
    /\ LET r == GenStep(hs, gen)
           p == passes[Len(passes)]
       IN  /\ gen' = r.gen
           /\ passes' = [passes EXCEPT ![Len(passes)] =
                  IF r.rec = <<>> THEN [p EXCEPT !.stopped = TRUE]
                  ELSE [p EXCEPT !.records = p.records \o r.rec]]
    /\ UNCHANGED <<PY3, hs, codecVars, cleanVars, hostVars, bidiVars>>

NextHex == IterBegin \/ IterNext

SpecHex == InitHex /\ [][NextHex]_vars

\* Every record the generator object has yielded, over all loops, in order.
Yielded == Concat([p \in 1..Len(passes) |-> passes[p].records])

Exhausted == \E p \in 1..Len(passes) : passes[p].stopped

RECURSIVE ParseHex(_)
\* The number a string of hexadecimal digits writes.
ParseHex(d) ==
    IF d = <<>> THEN 0
    ELSE ParseHex(SubSeq(d, 1, Len(d) - 1)) * 16 + HexVal(d[Len(d)])

IsLowerHex(c) == (c >= 48 /\ c <= 57) \/ (c >= 97 /\ c <= 102)

RECURSIVE Without(_, _)
\* s without its characters c.
Without(s, c) ==
    IF s = <<>> THEN <<>>
    ELSE IF Head(s) = c THEN Without(Tail(s), c)
    ELSE <<Head(s)>> \o Without(Tail(s), c)

\* The bytes written by a string of two-digit hexadecimal pairs.
PairsToBytes(d) ==
    [k \in 1..(Len(d) \div 2) |-> HexVal(d[2 * k - 1]) * 16 + HexVal(d[2 * k])]

\* C7: iterated to exhaustion, hexdump(s) has yielded ceil(len(s)/16) records;
\* record k (from 0) has the offset 16*k in 10 zero-padded lowercase
\* hexadecimal digits, so offsets ascend strictly; and the digit pairs of the
\* hex fields, put together in order, write s byte for byte.
C7_HexdumpCoverage ==
    Exhausted =>
        LET recs == Yielded
            digits == Concat([k \in 1..Len(recs) |-> Without(recs[k][2], SPACE)])
        IN  /\ Len(recs) = (Len(hs) + 15) \div 16
            /\ \A k \in 1..Len(recs) :
                  /\ Len(recs[k][1]) = 10
                  /\ \A j \in 1..10 : IsLowerHex(recs[k][1][j])
                  /\ ParseHex(recs[k][1]) = 16 * (k - 1)
            /\ \A k \in 1..(Len(recs) - 1) :
                  ParseHex(recs[k][1]) < ParseHex(recs[k + 1][1])
            /\ \A j \in 1..Len(digits) : IsLowerHex(digits[j])
            /\ Len(digits) = 2 * Len(hs)
            /\ PairsToBytes(digits) = hs

\* C7 witness: a buffer of 17 bytes or more that starts with the byte 0xab has
\* been dumped to exhaustion in one loop, the last record a partial chunk.
C7_Witness ==
    /\ Len(hs) > 16 /\ Len(hs) % 16 # 0 /\ hs[1] = 171
    /\ Len(passes) = 1 /\ passes[1].stopped
    /\ Len(passes[1].records) >= 2

\* All the records of hexdump(s), from offset 0.
FullDump(s) == [k \in 1..((Len(s) + 15) \div 16) |-> HexRecord(s, 16 * (k - 1))]

\* C8 as claimed: a loop over the object hexdump(s) returned that starts after
\* an earlier loop over the same object, and runs to its end, receives every
\* record again, from offset 0.
C8_Restartable ==
    \A p \in 2..Len(passes) :
        passes[p].stopped => passes[p].records = FullDump(hs)

\* C8 amended: the object hexdump(s) returns is a single-pass generator: over
\* all the loops over it, it yields each record of the dump once, in order; a
\* loop that starts after a partial one resumes at the next record not yet
\* yielded, and a loop that starts after the generator is exhausted receives
\* nothing.
C8_SinglePass ==
    LET recs == Yielded
        full == FullDump(hs)
    IN  /\ Len(recs) <= Len(full)
        /\ recs = SubSeq(full, 1, Len(recs))
        /\ Exhausted => recs = full
        /\ \A p \in 2..Len(passes) :
              passes[p - 1].stopped => passes[p].records = <<>>

\* C8 witness: a first loop took one record of a two-record dump and was
\* left; a second loop over the same object ran to its end and received only
\* the second record.
C8_Witness ==
    /\ Len(passes) = 2
    /\ Len(passes[1].records) = 1 /\ ~passes[1].stopped
    /\ passes[2].stopped /\ Len(passes[2].records) = 1
    /\ ParseHex(passes[2].records[1][1]) = 16

(***************************************************************************)
(* is_valid_host                                                           *)
(***************************************************************************)

\* The most characters of a label, and of a host.
LabelMax == 63
HostMax == 255
HYPHEN == 45

\* s.split(sep) for a one-byte separator: the pieces between the separators,
\* empty pieces kept; a string without the separator is its only piece.
Split(s, sep) ==
    LET at == {i \in 1..Len(s) : s[i] = sep}
        \* The position of the k-th separator; 0 and Len(s) + 1 stand for the
        \* two ends.
        pos(k) == IF k = 0 THEN 0
                  ELSE IF k > Cardinality(at) THEN Len(s) + 1
                  ELSE CHOOSE i \in at : Cardinality({j \in at : j <= i}) = k
    IN  [k \in 1..(Cardinality(at) + 1) |-> SubSeq(s, pos(k - 1) + 1, pos(k) - 1)]

\* [A-Z\d-] under re.IGNORECASE, in a bytes pattern.
InLabelClass(c) ==
    \/ c >= 65 /\ c <= 90
    \/ c >= 97 /\ c <= 122
    \/ c >= 48 /\ c <= 57
    \/ c = HYPHEN

\* _label_valid.match(x): some m of 1..63 leading characters are all of the
\* class, the first and the m-th are not hyphens, and what follows them is
\* the end of x or a last newline ($ matches before it).
LabelValid(x) ==
    \E m \in 1..(IF Len(x) < LabelMax THEN Len(x) ELSE LabelMax) :
        /\ \A k \in 1..m : InLabelClass(x[k])
        /\ x[1] # HYPHEN
        /\ x[m] # HYPHEN
        /\ \/ m = Len(x)
           \/ m = Len(x) - 1 /\ x[Len(x)] = LF

(***************************************************************************)
(* host.decode("idna"): the codecs encodings.idna and encodings.punycode   *)
(* of the standard library, which is_valid_host runs on the host.  The     *)
(* codec works with the Unicode database 3.2.0 for the characters nameprep *)
(* normalises and prohibits, and with the database of the interpreter      *)
(* (14.0.0 in Python 3.11, 5.2.0 in Python 2.7) for the lower case of its  *)
(* case mapping and for the combining classes and the compositions of its  *)
(* normalisation step.                                                     *)
(***************************************************************************)

\* b"xn--", the prefix of a label in ASCII-compatible encoding.
AcePrefix == <<120, 110, HYPHEN, HYPHEN>>

StartsWith(s, prefix) ==
    Len(s) >= Len(prefix) /\ SubSeq(s, 1, Len(prefix)) = prefix

IsAscii(s) == \A k \in 1..Len(s) : s[k] < 128

\* str.lower() and str.upper() on ASCII text.
AsciiLower(s) ==
    [k \in 1..Len(s) |-> IF s[k] >= 65 /\ s[k] <= 90 THEN s[k] + 32 ELSE s[k]]

AsciiUpper(s) ==
    [k \in 1..Len(s) |-> IF s[k] >= 97 /\ s[k] <= 122 THEN s[k] - 32 ELSE s[k]]

\* The values a failed step hands on, for a UnicodeError and for an
\* IndexError: no text holds a negative code point.
Failed == <<-1>>
IndexFailed == <<-2>>

\* punycode.T(j, bias)
T(j, bias) ==
    LET res == 36 * (j + 1) - bias
    IN  IF res < 1 THEN 1 ELSE IF res > 26 THEN 26 ELSE res

RECURSIVE AdaptLoop(_, _)
\* The loop of punycode.adapt and the value it returns.
AdaptLoop(delta, divisions) ==
    IF delta > 455 THEN AdaptLoop(delta \div 35, divisions + 36)
    ELSE divisions + ((36 * delta) \div (delta + 38))

\* punycode.adapt(delta, first, numchars)
adapt(delta, first, numchars) ==
    LET d == IF first THEN delta \div 700 ELSE delta \div 2
    IN  AdaptLoop(d + (d \div numchars), 0)

RECURSIVE decode_generalized_number(_, _, _, _, _, _, _)
\* punycode.decode_generalized_number(extended, extpos, bias, "strict"), with
\* the loop's result, w and j as arguments: <<extpos after the number, the
\* number>>, <<0, 0>> for a UnicodeError and <<-1, 0>> for an IndexError.
\* Python 2 builds the message of an invalid digit from the character after
\* it, and so raises IndexError when the digit is the last character.  The
\* sum and the weight stop growing at limit + 1: the caller turns every number
\* above limit into a character above U+10FFFF, which it refuses.
decode_generalized_number(extended, extpos, bias, result, w, j, limit) ==
    IF extpos > Len(extended) THEN <<0, 0>>      \* incomplete punicode string
    ELSE LET ch == extended[extpos]
             digit == IF ch >= 65 /\ ch <= 90 THEN ch - 65
                      ELSE IF ch >= 48 /\ ch <= 57 THEN ch - 22
                      ELSE -1
             t == T(j, bias)
             sum == IF digit > 0 /\ w > (limit - result) \div digit
                    THEN limit + 1
                    ELSE result + digit * w
         IN  IF digit < 0                        \* Invalid extended code point
             THEN IF ~PY3 /\ extpos = Len(extended) THEN <<-1, 0>> ELSE <<0, 0>>
             ELSE IF digit < t THEN <<extpos + 1, sum>>
             ELSE decode_generalized_number(
                      extended, extpos + 1, bias, sum,
                      IF w > limit \div 35 THEN limit + 1 ELSE w * (36 - t),
                      j + 1, limit)

RECURSIVE insertion_sort(_, _, _, _, _, _)
RECURSIVE InsertNumber(_, _, _, _, _, _)
\* punycode.insertion_sort(base, extended, "strict"), with the loop's char,
\* pos, bias and extpos as arguments: the decoded text, Failed or IndexFailed.
insertion_sort(base, extended, extpos, char, pos, bias) ==
    IF extpos > Len(extended) THEN base
    ELSE InsertNumber(base, extended, extpos, char, pos,
                      decode_generalized_number(extended, extpos, bias, 0, 1, 0,
                                                1114112 * (Len(base) + 1)))

\* One pass of the loop of insertion_sort, with what decode_generalized_number
\* returned for it, and the passes after it.
InsertNumber(base, extended, extpos, char, pos, r) ==
    IF r[1] = 0 THEN Failed
    ELSE IF r[1] = -1 THEN IndexFailed
    ELSE LET n == Len(base) + 1
             delta == r[2]
             p == pos + delta + 1
             c == char + (p \div n)
             q == p % n
         IN  IF c > 1114111 THEN Failed
             ELSE insertion_sort(
                      SubSeq(base, 1, q) \o <<c>>
                          \o SubSeq(base, q + 1, Len(base)),
                      extended, r[1], c, q,
                      adapt(delta, extpos = 1, n))

\* punycode.punycode_decode(text, "strict"): the text splits at its last
\* hyphen into the basic characters and the extended part.
punycode_decode(text) ==
    LET dashes == {i \in 1..Len(text) : text[i] = HYPHEN}
        pos == IF dashes = {} THEN 0
               ELSE CHOOSE i \in dashes : \A k \in dashes : k <= i
    IN  insertion_sort(SubSeq(text, 1, pos - 1),
                       AsciiUpper(SubSeq(text, pos + 1, Len(text))),
                       1, 128, -1, 72)

\* punycode.insertion_unsort(str, extended): the deltas of the characters
\* above ASCII, taken by code point and then by position.  The index of an
\* occurrence counts the characters up to it that are not above it (what
\* selective_find returns); curlen counts the characters below it (what
\* selective_len returns).
insertion_unsort(str) ==
    LET ext == {i \in 1..Len(str) : str[i] >= 128}
        rank(i) == Cardinality({q \in ext : \/ str[q] < str[i]
                                            \/ str[q] = str[i] /\ q < i}) + 1
        at(k) == CHOOSE i \in ext : rank(i) = k
        index(k) == IF k = 0 THEN -1
                    ELSE Cardinality({q \in 1..at(k) : str[q] <= str[at(k)]}) - 1
        char(k) == IF k = 0 THEN 128 ELSE str[at(k)]
        curlen(k) == Cardinality({q \in 1..Len(str) : str[q] < char(k)})
    IN  [k \in 1..Cardinality(ext) |->
            (curlen(k) + 1) * (char(k) - char(k - 1))
                + index(k) - index(k - 1) - 1]

\* punycode.digits[d]
PunycodeDigit(d) == IF d < 26 THEN 97 + d ELSE 22 + d

RECURSIVE generate_generalized_integer(_, _, _)
\* punycode.generate_generalized_integer(N, bias), with the loop's j.
generate_generalized_integer(N, bias, j) ==
    LET t == T(j, bias)
    IN  IF N < t THEN <<PunycodeDigit(N)>>
        ELSE <<PunycodeDigit(t + ((N - t) % (36 - t)))>>
             \o generate_generalized_integer((N - t) \div (36 - t), bias, j + 1)

RECURSIVE generate_integers(_, _, _, _)
\* punycode.generate_integers(baselen, deltas), with the loop's points
\* (counted from 1) and bias.
generate_integers(baselen, deltas, points, bias) ==
    IF points > Len(deltas) THEN <<>>
    ELSE generate_generalized_integer(deltas[points], bias, 0)
         \o generate_integers(baselen, deltas, points + 1,
                              adapt(deltas[points], points = 1, baselen + points))

IsBasic(c) == c < 128

\* punycode.punycode_encode(text)
punycode_encode(text) ==
    LET base == SelectSeq(text, IsBasic)
        extended == generate_integers(Len(base), insertion_unsort(text), 1, 72)
    IN  IF base # <<>> THEN base \o <<HYPHEN>> \o extended ELSE extended

\* The ranges of code points above ASCII that nameprep does not leave alone:
\* it deletes or maps them (stringprep tables B.1 and B.2), the normalisation
\* NFKC rewrites them, or it prohibits them (tables C.1.2, C.2.2 and
\* C.3 to C.9), in the Unicode database 3.2.0.
NameprepChanges == <<
    128, 160, 168, 168, 170, 170, 173, 173, 175, 175, 178, 181,
    184, 186, 188, 190, 192, 214, 216, 223, 256, 256, 258, 258,
    260, 260, 262, 262, 264, 264, 266, 266, 268, 268, 270, 270,
    272, 272, 274, 274, 276, 276, 278, 278, 280, 280, 282, 282,
    284, 284, 286, 286, 288, 288, 290, 290, 292, 292, 294, 294,
    296, 296, 298, 298, 300, 300, 302, 302, 304, 304, 306, 308,
    310, 310, 313, 313, 315, 315, 317, 317, 319, 321, 323, 323,
    325, 325, 327, 327, 329, 330, 332, 332, 334, 334, 336, 336,
    338, 338, 340, 340, 342, 342, 344, 344, 346, 346, 348, 348,
    350, 350, 352, 352, 354, 354, 356, 356, 358, 358, 360, 360,
    362, 362, 364, 364, 366, 366, 368, 368, 370, 370, 372, 372,
    374, 374, 376, 377, 379, 379, 381, 381, 383, 383, 385, 386,
    388, 388, 390, 391, 393, 395, 398, 401, 403, 404, 406, 408,
    412, 413, 415, 416, 418, 418, 420, 420, 422, 423, 425, 425,
    428, 428, 430, 431, 433, 435, 437, 437, 439, 440, 444, 444,
    452, 461, 463, 463, 465, 465, 467, 467, 469, 469, 471, 471,
    473, 473, 475, 475, 478, 478, 480, 480, 482, 482, 484, 484,
    486, 486, 488, 488, 490, 490, 492, 492, 494, 494, 497, 500,
    502, 504, 506, 506, 508, 508, 510, 510, 512, 512, 514, 514,
    516, 516, 518, 518, 520, 520, 522, 522, 524, 524, 526, 526,
    528, 528, 530, 530, 532, 532, 534, 534, 536, 536, 538, 538,
    540, 540, 542, 542, 544, 544, 546, 546, 548, 548, 550, 550,
    552, 552, 554, 554, 556, 556, 558, 558, 560, 560, 562, 562,
    570, 571, 573, 574, 577, 577, 579, 582, 584, 584, 586, 586,
    588, 588, 590, 590, 688, 696, 728, 733, 736, 740, 832, 833,
    835, 837, 847, 847, 880, 880, 882, 882, 884, 884, 886, 886,
    890, 890, 894, 895, 900, 906, 908, 908, 910, 911, 913, 929,
    931, 939, 962, 962, 975, 982, 984, 984, 986, 986, 988, 988,
    990, 990, 992, 992, 994, 994, 996, 996, 998, 998, 1000, 1000,
    1002, 1002, 1004, 1004, 1006, 1006, 1008, 1010, 1012, 1013, 1015, 1015,
    1017, 1018, 1021, 1071, 1120, 1120, 1122, 1122, 1124, 1124, 1126, 1126,
    1128, 1128, 1130, 1130, 1132, 1132, 1134, 1134, 1136, 1136, 1138, 1138,
    1140, 1140, 1142, 1142, 1144, 1144, 1146, 1146, 1148, 1148, 1150, 1150,
    1152, 1152, 1162, 1162, 1164, 1164, 1166, 1166, 1168, 1168, 1170, 1170,
    1172, 1172, 1174, 1174, 1176, 1176, 1178, 1178, 1180, 1180, 1182, 1182,
    1184, 1184, 1186, 1186, 1188, 1188, 1190, 1190, 1192, 1192, 1194, 1194,
    1196, 1196, 1198, 1198, 1200, 1200, 1202, 1202, 1204, 1204, 1206, 1206,
    1208, 1208, 1210, 1210, 1212, 1212, 1214, 1214, 1216, 1217, 1219, 1219,
    1221, 1221, 1223, 1223, 1225, 1225, 1227, 1227, 1229, 1229, 1232, 1232,
    1234, 1234, 1236, 1236, 1238, 1238, 1240, 1240, 1242, 1242, 1244, 1244,
    1246, 1246, 1248, 1248, 1250, 1250, 1252, 1252, 1254, 1254, 1256, 1256,
    1258, 1258, 1260, 1260, 1262, 1262, 1264, 1264, 1266, 1266, 1268, 1268,
    1270, 1270, 1272, 1272, 1274, 1274, 1276, 1276, 1278, 1278, 1280, 1280,
    1282, 1282, 1284, 1284, 1286, 1286, 1288, 1288, 1290, 1290, 1292, 1292,
    1294, 1294, 1296, 1296, 1298, 1298, 1300, 1300, 1302, 1302, 1304, 1304,
    1306, 1306, 1308, 1308, 1310, 1310, 1312, 1312, 1314, 1314, 1316, 1316,
    1318, 1318, 1320, 1320, 1322, 1322, 1324, 1324, 1326, 1326, 1329, 1366,
    1415, 1415, 1653, 1656, 1757, 1757, 1807, 1807, 2392, 2399, 2524, 2525,
    2527, 2527, 2611, 2611, 2614, 2614, 2649, 2651, 2654, 2654, 2908, 2909,
    3635, 3635, 3763, 3763, 3804, 3805, 3852, 3852, 3907, 3907, 3917, 3917,
    3922, 3922, 3927, 3927, 3932, 3932, 3945, 3945, 3955, 3955, 3957, 3961,
    3969, 3969, 3987, 3987, 3997, 3997, 4002, 4002, 4007, 4007, 4012, 4012,
    4025, 4025, 4256, 4293, 4295, 4295, 4301, 4301, 5024, 5109, 5760, 5760,
    6150, 6150, 6155, 6158, 7312, 7354, 7357, 7359, 7680, 7680, 7682, 7682,
    7684, 7684, 7686, 7686, 7688, 7688, 7690, 7690, 7692, 7692, 7694, 7694,
    7696, 7696, 7698, 7698, 7700, 7700, 7702, 7702, 7704, 7704, 7706, 7706,
    7708, 7708, 7710, 7710, 7712, 7712, 7714, 7714, 7716, 7716, 7718, 7718,
    7720, 7720, 7722, 7722, 7724, 7724, 7726, 7726, 7728, 7728, 7730, 7730,
    7732, 7732, 7734, 7734, 7736, 7736, 7738, 7738, 7740, 7740, 7742, 7742,
    7744, 7744, 7746, 7746, 7748, 7748, 7750, 7750, 7752, 7752, 7754, 7754,
    7756, 7756, 7758, 7758, 7760, 7760, 7762, 7762, 7764, 7764, 7766, 7766,
    7768, 7768, 7770, 7770, 7772, 7772, 7774, 7774, 7776, 7776, 7778, 7778,
    7780, 7780, 7782, 7782, 7784, 7784, 7786, 7786, 7788, 7788, 7790, 7790,
    7792, 7792, 7794, 7794, 7796, 7796, 7798, 7798, 7800, 7800, 7802, 7802,
    7804, 7804, 7806, 7806, 7808, 7808, 7810, 7810, 7812, 7812, 7814, 7814,
    7816, 7816, 7818, 7818, 7820, 7820, 7822, 7822, 7824, 7824, 7826, 7826,
    7828, 7828, 7834, 7835, 7838, 7838, 7840, 7840, 7842, 7842, 7844, 7844,
    7846, 7846, 7848, 7848, 7850, 7850, 7852, 7852, 7854, 7854, 7856, 7856,
    7858, 7858, 7860, 7860, 7862, 7862, 7864, 7864, 7866, 7866, 7868, 7868,
    7870, 7870, 7872, 7872, 7874, 7874, 7876, 7876, 7878, 7878, 7880, 7880,
    7882, 7882, 7884, 7884, 7886, 7886, 7888, 7888, 7890, 7890, 7892, 7892,
    7894, 7894, 7896, 7896, 7898, 7898, 7900, 7900, 7902, 7902, 7904, 7904,
    7906, 7906, 7908, 7908, 7910, 7910, 7912, 7912, 7914, 7914, 7916, 7916,
    7918, 7918, 7920, 7920, 7922, 7922, 7924, 7924, 7926, 7926, 7928, 7928,
    7930, 7930, 7932, 7932, 7934, 7934, 7944, 7951, 7960, 7965, 7976, 7983,
    7992, 7999, 8008, 8013, 8025, 8025, 8027, 8027, 8029, 8029, 8031, 8031,
    8040, 8047, 8049, 8049, 8051, 8051, 8053, 8053, 8055, 8055, 8057, 8057,
    8059, 8059, 8061, 8061, 8064, 8111, 8114, 8116, 8119, 8132, 8135, 8143,
    8147, 8147, 8152, 8155, 8157, 8159, 8163, 8163, 8168, 8175, 8178, 8180,
    8183, 8190, 8192, 8207, 8209, 8209, 8215, 8215, 8228, 8230, 8232, 8239,
    8243, 8244, 8246, 8247, 8252, 8252, 8254, 8254, 8263, 8265, 8279, 8279,
    8287, 8291, 8298, 8305, 8308, 8334, 8360, 8360, 8448, 8451, 8453, 8455,
    8457, 8467, 8469, 8470, 8473, 8477, 8480, 8482, 8484, 8484, 8486, 8486,
    8488, 8488, 8490, 8493, 8495, 8505, 8509, 8512, 8517, 8521, 8531, 8575,
    8579, 8579, 8748, 8749, 8751, 8752, 9001, 9002, 9312, 9450, 10764, 10764,
    10868, 10870, 10972, 10972, 11264, 11311, 11360, 11360, 11362, 11364, 11367, 11367,
    11369, 11369, 11371, 11371, 11373, 11376, 11378, 11378, 11381, 11381, 11390, 11392,
    11394, 11394, 11396, 11396, 11398, 11398, 11400, 11400, 11402, 11402, 11404, 11404,
    11406, 11406, 11408, 11408, 11410, 11410, 11412, 11412, 11414, 11414, 11416, 11416,
    11418, 11418, 11420, 11420, 11422, 11422, 11424, 11424, 11426, 11426, 11428, 11428,
    11430, 11430, 11432, 11432, 11434, 11434, 11436, 11436, 11438, 11438, 11440, 11440,
    11442, 11442, 11444, 11444, 11446, 11446, 11448, 11448, 11450, 11450, 11452, 11452,
    11454, 11454, 11456, 11456, 11458, 11458, 11460, 11460, 11462, 11462, 11464, 11464,
    11466, 11466, 11468, 11468, 11470, 11470, 11472, 11472, 11474, 11474, 11476, 11476,
    11478, 11478, 11480, 11480, 11482, 11482, 11484, 11484, 11486, 11486, 11488, 11488,
    11490, 11490, 11499, 11499, 11501, 11501, 11506, 11506, 11935, 11935, 12019, 12019,
    12032, 12245, 12272, 12283, 12288, 12288, 12342, 12342, 12344, 12346, 12443, 12444,
    12447, 12447, 12543, 12543, 12593, 12686, 12690, 12703, 12800, 12828, 12832, 12867,
    12881, 12923, 12928, 13003, 13008, 13054, 13056, 13174, 13179, 13277, 13280, 13310,
    42560, 42560, 42562, 42562, 42564, 42564, 42566, 42566, 42568, 42568, 42570, 42570,
    42572, 42572, 42574, 42574, 42576, 42576, 42578, 42578, 42580, 42580, 42582, 42582,
    42584, 42584, 42586, 42586, 42588, 42588, 42590, 42590, 42592, 42592, 42594, 42594,
    42596, 42596, 42598, 42598, 42600, 42600, 42602, 42602, 42604, 42604, 42624, 42624,
    42626, 42626, 42628, 42628, 42630, 42630, 42632, 42632, 42634, 42634, 42636, 42636,
    42638, 42638, 42640, 42640, 42642, 42642, 42644, 42644, 42646, 42646, 42648, 42648,
    42650, 42650, 42786, 42786, 42788, 42788, 42790, 42790, 42792, 42792, 42794, 42794,
    42796, 42796, 42798, 42798, 42802, 42802, 42804, 42804, 42806, 42806, 42808, 42808,
    42810, 42810, 42812, 42812, 42814, 42814, 42816, 42816, 42818, 42818, 42820, 42820,
    42822, 42822, 42824, 42824, 42826, 42826, 42828, 42828, 42830, 42830, 42832, 42832,
    42834, 42834, 42836, 42836, 42838, 42838, 42840, 42840, 42842, 42842, 42844, 42844,
    42846, 42846, 42848, 42848, 42850, 42850, 42852, 42852, 42854, 42854, 42856, 42856,
    42858, 42858, 42860, 42860, 42862, 42862, 42873, 42873, 42875, 42875, 42877, 42878,
    42880, 42880, 42882, 42882, 42884, 42884, 42886, 42886, 42891, 42891, 42893, 42893,
    42896, 42896, 42898, 42898, 42902, 42902, 42904, 42904, 42906, 42906, 42908, 42908,
    42910, 42910, 42912, 42912, 42914, 42914, 42916, 42916, 42918, 42918, 42920, 42920,
    42922, 42926, 42928, 42932, 42934, 42934, 42936, 42936, 42938, 42938, 42940, 42940,
    42942, 42942, 42944, 42944, 42946, 42946, 42948, 42951, 42953, 42953, 42960, 42960,
    42966, 42966, 42968, 42968, 42997, 42997, 55296, 64013, 64016, 64016, 64018, 64018,
    64021, 64030, 64032, 64032, 64034, 64034, 64037, 64038, 64042, 64045, 64048, 64106,
    64256, 64262, 64275, 64279, 64285, 64285, 64287, 64310, 64312, 64316, 64318, 64318,
    64320, 64321, 64323, 64324, 64326, 64433, 64467, 64829, 64848, 64911, 64914, 64967,
    64976, 65020, 65024, 65039, 65072, 65092, 65097, 65106, 65108, 65126, 65128, 65131,
    65136, 65138, 65140, 65140, 65142, 65276, 65279, 65279, 65281, 65470, 65474, 65479,
    65482, 65487, 65490, 65495, 65498, 65500, 65504, 65510, 65512, 65518, 65529, 65535,
    66560, 66599, 66736, 66771, 66928, 66938, 66940, 66954, 66956, 66962, 66964, 66965,
    68736, 68786, 71840, 71871, 93760, 93791, 119134, 119140, 119155, 119162, 119227, 119232,
    119808, 119892, 119894, 119964, 119966, 119967, 119970, 119970, 119973, 119974, 119977, 119980,
    119982, 119993, 119995, 119995, 119997, 120000, 120002, 120003, 120005, 120069, 120071, 120074,
    120077, 120084, 120086, 120092, 120094, 120121, 120123, 120126, 120128, 120132, 120134, 120134,
    120138, 120144, 120146, 120483, 120488, 120777, 120782, 120831, 125184, 125217, 131070, 131071,
    194560, 195101, 196606, 196607, 262142, 262143, 327678, 327679, 393214, 393215, 458750, 458751,
    524286, 524287, 589822, 589823, 655358, 655359, 720894, 720895, 786430, 786431, 851966, 851967,
    917502, 917503, 917505, 917505, 917536, 917631, 983038, 1114111>>

\* The canonical combining classes that are not 0: first, last, class of
\* every range, one range after the other.
CombiningClass == <<
    768, 788, 230, 789, 789, 232, 790, 793, 220, 794, 794, 232, 795, 795, 216,
    796, 800, 220, 801, 802, 202, 803, 806, 220, 807, 808, 202, 809, 819, 220,
    820, 824, 1, 825, 828, 220, 829, 836, 230, 837, 837, 240, 838, 838, 230,
    839, 841, 220, 842, 844, 230, 845, 846, 220, 848, 850, 230, 851, 854, 220,
    855, 855, 230, 856, 856, 232, 857, 858, 220, 859, 859, 230, 860, 860, 233,
    861, 862, 234, 863, 863, 233, 864, 865, 234, 866, 866, 233, 867, 879, 230,
    1155, 1159, 230, 1425, 1425, 220, 1426, 1429, 230, 1430, 1430, 220, 1431, 1433, 230,
    1434, 1434, 222, 1435, 1435, 220, 1436, 1441, 230, 1442, 1447, 220, 1448, 1449, 230,
    1450, 1450, 220, 1451, 1452, 230, 1453, 1453, 222, 1454, 1454, 228, 1455, 1455, 230,
    1456, 1456, 10, 1457, 1457, 11, 1458, 1458, 12, 1459, 1459, 13, 1460, 1460, 14,
    1461, 1461, 15, 1462, 1462, 16, 1463, 1463, 17, 1464, 1464, 18, 1465, 1466, 19,
    1467, 1467, 20, 1468, 1468, 21, 1469, 1469, 22, 1471, 1471, 23, 1473, 1473, 24,
    1474, 1474, 25, 1476, 1476, 230, 1477, 1477, 220, 1479, 1479, 18, 1552, 1559, 230,
    1560, 1560, 30, 1561, 1561, 31, 1562, 1562, 32, 1611, 1611, 27, 1612, 1612, 28,
    1613, 1613, 29, 1614, 1614, 30, 1615, 1615, 31, 1616, 1616, 32, 1617, 1617, 33,
    1618, 1618, 34, 1619, 1620, 230, 1621, 1622, 220, 1623, 1627, 230, 1628, 1628, 220,
    1629, 1630, 230, 1631, 1631, 220, 1648, 1648, 35, 1750, 1756, 230, 1759, 1762, 230,
    1763, 1763, 220, 1764, 1764, 230, 1767, 1768, 230, 1770, 1770, 220, 1771, 1772, 230,
    1773, 1773, 220, 1809, 1809, 36, 1840, 1840, 230, 1841, 1841, 220, 1842, 1843, 230,
    1844, 1844, 220, 1845, 1846, 230, 1847, 1849, 220, 1850, 1850, 230, 1851, 1852, 220,
    1853, 1853, 230, 1854, 1854, 220, 1855, 1857, 230, 1858, 1858, 220, 1859, 1859, 230,
    1860, 1860, 220, 1861, 1861, 230, 1862, 1862, 220, 1863, 1863, 230, 1864, 1864, 220,
    1865, 1866, 230, 2027, 2033, 230, 2034, 2034, 220, 2035, 2035, 230, 2045, 2045, 220,
    2070, 2073, 230, 2075, 2083, 230, 2085, 2087, 230, 2089, 2093, 230, 2137, 2139, 220,
    2200, 2200, 230, 2201, 2203, 220, 2204, 2207, 230, 2250, 2254, 230, 2255, 2259, 220,
    2260, 2273, 230, 2275, 2275, 220, 2276, 2277, 230, 2278, 2278, 220, 2279, 2280, 230,
    2281, 2281, 220, 2282, 2284, 230, 2285, 2287, 220, 2288, 2288, 27, 2289, 2289, 28,
    2290, 2290, 29, 2291, 2293, 230, 2294, 2294, 220, 2295, 2296, 230, 2297, 2298, 220,
    2299, 2303, 230, 2364, 2364, 7, 2381, 2381, 9, 2385, 2385, 230, 2386, 2386, 220,
    2387, 2388, 230, 2492, 2492, 7, 2509, 2509, 9, 2558, 2558, 230, 2620, 2620, 7,
    2637, 2637, 9, 2748, 2748, 7, 2765, 2765, 9, 2876, 2876, 7, 2893, 2893, 9,
    3021, 3021, 9, 3132, 3132, 7, 3149, 3149, 9, 3157, 3157, 84, 3158, 3158, 91,
    3260, 3260, 7, 3277, 3277, 9, 3387, 3388, 9, 3405, 3405, 9, 3530, 3530, 9,
    3640, 3641, 103, 3642, 3642, 9, 3656, 3659, 107, 3768, 3769, 118, 3770, 3770, 9,
    3784, 3787, 122, 3864, 3865, 220, 3893, 3893, 220, 3895, 3895, 220, 3897, 3897, 216,
    3953, 3953, 129, 3954, 3954, 130, 3956, 3956, 132, 3962, 3965, 130, 3968, 3968, 130,
    3970, 3971, 230, 3972, 3972, 9, 3974, 3975, 230, 4038, 4038, 220, 4151, 4151, 7,
    4153, 4154, 9, 4237, 4237, 220, 4957, 4959, 230, 5908, 5909, 9, 5940, 5940, 9,
    6098, 6098, 9, 6109, 6109, 230, 6313, 6313, 228, 6457, 6457, 222, 6458, 6458, 230,
    6459, 6459, 220, 6679, 6679, 230, 6680, 6680, 220, 6752, 6752, 9, 6773, 6780, 230,
    6783, 6783, 220, 6832, 6836, 230, 6837, 6842, 220, 6843, 6844, 230, 6845, 6845, 220,
    6847, 6848, 220, 6849, 6850, 230, 6851, 6852, 220, 6853, 6857, 230, 6858, 6858, 220,
    6859, 6862, 230, 6964, 6964, 7, 6980, 6980, 9, 7019, 7019, 230, 7020, 7020, 220,
    7021, 7027, 230, 7082, 7083, 9, 7142, 7142, 7, 7154, 7155, 9, 7223, 7223, 7,
    7376, 7378, 230, 7380, 7380, 1, 7381, 7385, 220, 7386, 7387, 230, 7388, 7391, 220,
    7392, 7392, 230, 7394, 7400, 1, 7405, 7405, 220, 7412, 7412, 230, 7416, 7417, 230,
    7616, 7617, 230, 7618, 7618, 220, 7619, 7625, 230, 7626, 7626, 220, 7627, 7628, 230,
    7629, 7629, 234, 7630, 7630, 214, 7631, 7631, 220, 7632, 7632, 202, 7633, 7669, 230,
    7670, 7670, 232, 7671, 7672, 228, 7673, 7673, 220, 7674, 7674, 218, 7675, 7675, 230,
    7676, 7676, 233, 7677, 7677, 220, 7678, 7678, 230, 7679, 7679, 220, 8400, 8401, 230,
    8402, 8403, 1, 8404, 8407, 230, 8408, 8410, 1, 8411, 8412, 230, 8417, 8417, 230,
    8421, 8422, 1, 8423, 8423, 230, 8424, 8424, 220, 8425, 8425, 230, 8426, 8427, 1,
    8428, 8431, 220, 8432, 8432, 230, 11503, 11505, 230, 11647, 11647, 9, 11744, 11775, 230,
    12330, 12330, 218, 12331, 12331, 228, 12332, 12332, 232, 12333, 12333, 222, 12334, 12335, 224,
    12441, 12442, 8, 42607, 42607, 230, 42612, 42621, 230, 42654, 42655, 230, 42736, 42737, 230,
    43014, 43014, 9, 43052, 43052, 9, 43204, 43204, 9, 43232, 43249, 230, 43307, 43309, 220,
    43347, 43347, 9, 43443, 43443, 7, 43456, 43456, 9, 43696, 43696, 230, 43698, 43699, 230,
    43700, 43700, 220, 43703, 43704, 230, 43710, 43711, 230, 43713, 43713, 230, 43766, 43766, 9,
    44013, 44013, 9, 64286, 64286, 26, 65056, 65062, 230, 65063, 65069, 220, 65070, 65071, 230,
    66045, 66045, 220, 66272, 66272, 220, 66422, 66426, 230, 68109, 68109, 220, 68111, 68111, 230,
    68152, 68152, 230, 68153, 68153, 1, 68154, 68154, 220, 68159, 68159, 9, 68325, 68325, 230,
    68326, 68326, 220, 68900, 68903, 230, 69291, 69292, 230, 69446, 69447, 220, 69448, 69450, 230,
    69451, 69451, 220, 69452, 69452, 230, 69453, 69456, 220, 69506, 69506, 230, 69507, 69507, 220,
    69508, 69508, 230, 69509, 69509, 220, 69702, 69702, 9, 69744, 69744, 9, 69759, 69759, 9,
    69817, 69817, 9, 69818, 69818, 7, 69888, 69890, 230, 69939, 69940, 9, 70003, 70003, 7,
    70080, 70080, 9, 70090, 70090, 7, 70197, 70197, 9, 70198, 70198, 7, 70377, 70377, 7,
    70378, 70378, 9, 70459, 70460, 7, 70477, 70477, 9, 70502, 70508, 230, 70512, 70516, 230,
    70722, 70722, 9, 70726, 70726, 7, 70750, 70750, 230, 70850, 70850, 9, 70851, 70851, 7,
    71103, 71103, 9, 71104, 71104, 7, 71231, 71231, 9, 71350, 71350, 9, 71351, 71351, 7,
    71467, 71467, 9, 71737, 71737, 9, 71738, 71738, 7, 71997, 71998, 9, 72003, 72003, 7,
    72160, 72160, 9, 72244, 72244, 9, 72263, 72263, 9, 72345, 72345, 9, 72767, 72767, 9,
    73026, 73026, 7, 73028, 73029, 9, 73111, 73111, 9, 92912, 92916, 1, 92976, 92982, 230,
    94192, 94193, 6, 113822, 113822, 1, 119141, 119142, 216, 119143, 119145, 1, 119149, 119149, 226,
    119150, 119154, 216, 119163, 119170, 220, 119173, 119177, 230, 119178, 119179, 220, 119210, 119213, 230,
    119362, 119364, 230, 122880, 122886, 230, 122888, 122904, 230, 122907, 122913, 230, 122915, 122916, 230,
    122918, 122922, 230, 123184, 123190, 230, 123566, 123566, 230, 123628, 123631, 230, 125136, 125142, 220,
    125252, 125257, 230, 125258, 125258, 7>>

\* The canonical compositions: first, second, composite of every pair, one
\* pair after the other.
Compositions == <<
    60, 824, 8814, 61, 824, 8800, 62, 824, 8815, 65, 768, 192,
    65, 769, 193, 65, 770, 194, 65, 771, 195, 65, 772, 256,
    65, 774, 258, 65, 775, 550, 65, 776, 196, 65, 777, 7842,
    65, 778, 197, 65, 780, 461, 65, 783, 512, 65, 785, 514,
    65, 803, 7840, 65, 805, 7680, 65, 808, 260, 66, 775, 7682,
    66, 803, 7684, 66, 817, 7686, 67, 769, 262, 67, 770, 264,
    67, 775, 266, 67, 780, 268, 67, 807, 199, 68, 775, 7690,
    68, 780, 270, 68, 803, 7692, 68, 807, 7696, 68, 813, 7698,
    68, 817, 7694, 69, 768, 200, 69, 769, 201, 69, 770, 202,
    69, 771, 7868, 69, 772, 274, 69, 774, 276, 69, 775, 278,
    69, 776, 203, 69, 777, 7866, 69, 780, 282, 69, 783, 516,
    69, 785, 518, 69, 803, 7864, 69, 807, 552, 69, 808, 280,
    69, 813, 7704, 69, 816, 7706, 70, 775, 7710, 71, 769, 500,
    71, 770, 284, 71, 772, 7712, 71, 774, 286, 71, 775, 288,
    71, 780, 486, 71, 807, 290, 72, 770, 292, 72, 775, 7714,
    72, 776, 7718, 72, 780, 542, 72, 803, 7716, 72, 807, 7720,
    72, 814, 7722, 73, 768, 204, 73, 769, 205, 73, 770, 206,
    73, 771, 296, 73, 772, 298, 73, 774, 300, 73, 775, 304,
    73, 776, 207, 73, 777, 7880, 73, 780, 463, 73, 783, 520,
    73, 785, 522, 73, 803, 7882, 73, 808, 302, 73, 816, 7724,
    74, 770, 308, 75, 769, 7728, 75, 780, 488, 75, 803, 7730,
    75, 807, 310, 75, 817, 7732, 76, 769, 313, 76, 780, 317,
    76, 803, 7734, 76, 807, 315, 76, 813, 7740, 76, 817, 7738,
    77, 769, 7742, 77, 775, 7744, 77, 803, 7746, 78, 768, 504,
    78, 769, 323, 78, 771, 209, 78, 775, 7748, 78, 780, 327,
    78, 803, 7750, 78, 807, 325, 78, 813, 7754, 78, 817, 7752,
    79, 768, 210, 79, 769, 211, 79, 770, 212, 79, 771, 213,
    79, 772, 332, 79, 774, 334, 79, 775, 558, 79, 776, 214,
    79, 777, 7886, 79, 779, 336, 79, 780, 465, 79, 783, 524,
    79, 785, 526, 79, 795, 416, 79, 803, 7884, 79, 808, 490,
    80, 769, 7764, 80, 775, 7766, 82, 769, 340, 82, 775, 7768,
    82, 780, 344, 82, 783, 528, 82, 785, 530, 82, 803, 7770,
    82, 807, 342, 82, 817, 7774, 83, 769, 346, 83, 770, 348,
    83, 775, 7776, 83, 780, 352, 83, 803, 7778, 83, 806, 536,
    83, 807, 350, 84, 775, 7786, 84, 780, 356, 84, 803, 7788,
    84, 806, 538, 84, 807, 354, 84, 813, 7792, 84, 817, 7790,
    85, 768, 217, 85, 769, 218, 85, 770, 219, 85, 771, 360,
    85, 772, 362, 85, 774, 364, 85, 776, 220, 85, 777, 7910,
    85, 778, 366, 85, 779, 368, 85, 780, 467, 85, 783, 532,
    85, 785, 534, 85, 795, 431, 85, 803, 7908, 85, 804, 7794,
    85, 808, 370, 85, 813, 7798, 85, 816, 7796, 86, 771, 7804,
    86, 803, 7806, 87, 768, 7808, 87, 769, 7810, 87, 770, 372,
    87, 775, 7814, 87, 776, 7812, 87, 803, 7816, 88, 775, 7818,
    88, 776, 7820, 89, 768, 7922, 89, 769, 221, 89, 770, 374,
    89, 771, 7928, 89, 772, 562, 89, 775, 7822, 89, 776, 376,
    89, 777, 7926, 89, 803, 7924, 90, 769, 377, 90, 770, 7824,
    90, 775, 379, 90, 780, 381, 90, 803, 7826, 90, 817, 7828,
    97, 768, 224, 97, 769, 225, 97, 770, 226, 97, 771, 227,
    97, 772, 257, 97, 774, 259, 97, 775, 551, 97, 776, 228,
    97, 777, 7843, 97, 778, 229, 97, 780, 462, 97, 783, 513,
    97, 785, 515, 97, 803, 7841, 97, 805, 7681, 97, 808, 261,
    98, 775, 7683, 98, 803, 7685, 98, 817, 7687, 99, 769, 263,
    99, 770, 265, 99, 775, 267, 99, 780, 269, 99, 807, 231,
    100, 775, 7691, 100, 780, 271, 100, 803, 7693, 100, 807, 7697,
    100, 813, 7699, 100, 817, 7695, 101, 768, 232, 101, 769, 233,
    101, 770, 234, 101, 771, 7869, 101, 772, 275, 101, 774, 277,
    101, 775, 279, 101, 776, 235, 101, 777, 7867, 101, 780, 283,
    101, 783, 517, 101, 785, 519, 101, 803, 7865, 101, 807, 553,
    101, 808, 281, 101, 813, 7705, 101, 816, 7707, 102, 775, 7711,
    103, 769, 501, 103, 770, 285, 103, 772, 7713, 103, 774, 287,
    103, 775, 289, 103, 780, 487, 103, 807, 291, 104, 770, 293,
    104, 775, 7715, 104, 776, 7719, 104, 780, 543, 104, 803, 7717,
    104, 807, 7721, 104, 814, 7723, 104, 817, 7830, 105, 768, 236,
    105, 769, 237, 105, 770, 238, 105, 771, 297, 105, 772, 299,
    105, 774, 301, 105, 776, 239, 105, 777, 7881, 105, 780, 464,
    105, 783, 521, 105, 785, 523, 105, 803, 7883, 105, 808, 303,
    105, 816, 7725, 106, 770, 309, 106, 780, 496, 107, 769, 7729,
    107, 780, 489, 107, 803, 7731, 107, 807, 311, 107, 817, 7733,
    108, 769, 314, 108, 780, 318, 108, 803, 7735, 108, 807, 316,
    108, 813, 7741, 108, 817, 7739, 109, 769, 7743, 109, 775, 7745,
    109, 803, 7747, 110, 768, 505, 110, 769, 324, 110, 771, 241,
    110, 775, 7749, 110, 780, 328, 110, 803, 7751, 110, 807, 326,
    110, 813, 7755, 110, 817, 7753, 111, 768, 242, 111, 769, 243,
    111, 770, 244, 111, 771, 245, 111, 772, 333, 111, 774, 335,
    111, 775, 559, 111, 776, 246, 111, 777, 7887, 111, 779, 337,
    111, 780, 466, 111, 783, 525, 111, 785, 527, 111, 795, 417,
    111, 803, 7885, 111, 808, 491, 112, 769, 7765, 112, 775, 7767,
    114, 769, 341, 114, 775, 7769, 114, 780, 345, 114, 783, 529,
    114, 785, 531, 114, 803, 7771, 114, 807, 343, 114, 817, 7775,
    115, 769, 347, 115, 770, 349, 115, 775, 7777, 115, 780, 353,
    115, 803, 7779, 115, 806, 537, 115, 807, 351, 116, 775, 7787,
    116, 776, 7831, 116, 780, 357, 116, 803, 7789, 116, 806, 539,
    116, 807, 355, 116, 813, 7793, 116, 817, 7791, 117, 768, 249,
    117, 769, 250, 117, 770, 251, 117, 771, 361, 117, 772, 363,
    117, 774, 365, 117, 776, 252, 117, 777, 7911, 117, 778, 367,
    117, 779, 369, 117, 780, 468, 117, 783, 533, 117, 785, 535,
    117, 795, 432, 117, 803, 7909, 117, 804, 7795, 117, 808, 371,
    117, 813, 7799, 117, 816, 7797, 118, 771, 7805, 118, 803, 7807,
    119, 768, 7809, 119, 769, 7811, 119, 770, 373, 119, 775, 7815,
    119, 776, 7813, 119, 778, 7832, 119, 803, 7817, 120, 775, 7819,
    120, 776, 7821, 121, 768, 7923, 121, 769, 253, 121, 770, 375,
    121, 771, 7929, 121, 772, 563, 121, 775, 7823, 121, 776, 255,
    121, 777, 7927, 121, 778, 7833, 121, 803, 7925, 122, 769, 378,
    122, 770, 7825, 122, 775, 380, 122, 780, 382, 122, 803, 7827,
    122, 817, 7829, 168, 768, 8173, 168, 769, 901, 168, 834, 8129,
    194, 768, 7846, 194, 769, 7844, 194, 771, 7850, 194, 777, 7848,
    196, 772, 478, 197, 769, 506, 198, 769, 508, 198, 772, 482,
    199, 769, 7688, 202, 768, 7872, 202, 769, 7870, 202, 771, 7876,
    202, 777, 7874, 207, 769, 7726, 212, 768, 7890, 212, 769, 7888,
    212, 771, 7894, 212, 777, 7892, 213, 769, 7756, 213, 772, 556,
    213, 776, 7758, 214, 772, 554, 216, 769, 510, 220, 768, 475,
    220, 769, 471, 220, 772, 469, 220, 780, 473, 226, 768, 7847,
    226, 769, 7845, 226, 771, 7851, 226, 777, 7849, 228, 772, 479,
    229, 769, 507, 230, 769, 509, 230, 772, 483, 231, 769, 7689,
    234, 768, 7873, 234, 769, 7871, 234, 771, 7877, 234, 777, 7875,
    239, 769, 7727, 244, 768, 7891, 244, 769, 7889, 244, 771, 7895,
    244, 777, 7893, 245, 769, 7757, 245, 772, 557, 245, 776, 7759,
    246, 772, 555, 248, 769, 511, 252, 768, 476, 252, 769, 472,
    252, 772, 470, 252, 780, 474, 258, 768, 7856, 258, 769, 7854,
    258, 771, 7860, 258, 777, 7858, 259, 768, 7857, 259, 769, 7855,
    259, 771, 7861, 259, 777, 7859, 274, 768, 7700, 274, 769, 7702,
    275, 768, 7701, 275, 769, 7703, 332, 768, 7760, 332, 769, 7762,
    333, 768, 7761, 333, 769, 7763, 346, 775, 7780, 347, 775, 7781,
    352, 775, 7782, 353, 775, 7783, 360, 769, 7800, 361, 769, 7801,
    362, 776, 7802, 363, 776, 7803, 383, 775, 7835, 416, 768, 7900,
    416, 769, 7898, 416, 771, 7904, 416, 777, 7902, 416, 803, 7906,
    417, 768, 7901, 417, 769, 7899, 417, 771, 7905, 417, 777, 7903,
    417, 803, 7907, 431, 768, 7914, 431, 769, 7912, 431, 771, 7918,
    431, 777, 7916, 431, 803, 7920, 432, 768, 7915, 432, 769, 7913,
    432, 771, 7919, 432, 777, 7917, 432, 803, 7921, 439, 780, 494,
    490, 772, 492, 491, 772, 493, 550, 772, 480, 551, 772, 481,
    552, 774, 7708, 553, 774, 7709, 558, 772, 560, 559, 772, 561,
    658, 780, 495, 913, 768, 8122, 913, 769, 902, 913, 772, 8121,
    913, 774, 8120, 913, 787, 7944, 913, 788, 7945, 913, 837, 8124,
    917, 768, 8136, 917, 769, 904, 917, 787, 7960, 917, 788, 7961,
    919, 768, 8138, 919, 769, 905, 919, 787, 7976, 919, 788, 7977,
    919, 837, 8140, 921, 768, 8154, 921, 769, 906, 921, 772, 8153,
    921, 774, 8152, 921, 776, 938, 921, 787, 7992, 921, 788, 7993,
    927, 768, 8184, 927, 769, 908, 927, 787, 8008, 927, 788, 8009,
    929, 788, 8172, 933, 768, 8170, 933, 769, 910, 933, 772, 8169,
    933, 774, 8168, 933, 776, 939, 933, 788, 8025, 937, 768, 8186,
    937, 769, 911, 937, 787, 8040, 937, 788, 8041, 937, 837, 8188,
    940, 837, 8116, 942, 837, 8132, 945, 768, 8048, 945, 769, 940,
    945, 772, 8113, 945, 774, 8112, 945, 787, 7936, 945, 788, 7937,
    945, 834, 8118, 945, 837, 8115, 949, 768, 8050, 949, 769, 941,
    949, 787, 7952, 949, 788, 7953, 951, 768, 8052, 951, 769, 942,
    951, 787, 7968, 951, 788, 7969, 951, 834, 8134, 951, 837, 8131,
    953, 768, 8054, 953, 769, 943, 953, 772, 8145, 953, 774, 8144,
    953, 776, 970, 953, 787, 7984, 953, 788, 7985, 953, 834, 8150,
    959, 768, 8056, 959, 769, 972, 959, 787, 8000, 959, 788, 8001,
    961, 787, 8164, 961, 788, 8165, 965, 768, 8058, 965, 769, 973,
    965, 772, 8161, 965, 774, 8160, 965, 776, 971, 965, 787, 8016,
    965, 788, 8017, 965, 834, 8166, 969, 768, 8060, 969, 769, 974,
    969, 787, 8032, 969, 788, 8033, 969, 834, 8182, 969, 837, 8179,
    970, 768, 8146, 970, 769, 912, 970, 834, 8151, 971, 768, 8162,
    971, 769, 944, 971, 834, 8167, 974, 837, 8180, 978, 769, 979,
    978, 776, 980, 1030, 776, 1031, 1040, 774, 1232, 1040, 776, 1234,
    1043, 769, 1027, 1045, 768, 1024, 1045, 774, 1238, 1045, 776, 1025,
    1046, 774, 1217, 1046, 776, 1244, 1047, 776, 1246, 1048, 768, 1037,
    1048, 772, 1250, 1048, 774, 1049, 1048, 776, 1252, 1050, 769, 1036,
    1054, 776, 1254, 1059, 772, 1262, 1059, 774, 1038, 1059, 776, 1264,
    1059, 779, 1266, 1063, 776, 1268, 1067, 776, 1272, 1069, 776, 1260,
    1072, 774, 1233, 1072, 776, 1235, 1075, 769, 1107, 1077, 768, 1104,
    1077, 774, 1239, 1077, 776, 1105, 1078, 774, 1218, 1078, 776, 1245,
    1079, 776, 1247, 1080, 768, 1117, 1080, 772, 1251, 1080, 774, 1081,
    1080, 776, 1253, 1082, 769, 1116, 1086, 776, 1255, 1091, 772, 1263,
    1091, 774, 1118, 1091, 776, 1265, 1091, 779, 1267, 1095, 776, 1269,
    1099, 776, 1273, 1101, 776, 1261, 1110, 776, 1111, 1140, 783, 1142,
    1141, 783, 1143, 1240, 776, 1242, 1241, 776, 1243, 1256, 776, 1258,
    1257, 776, 1259, 1575, 1619, 1570, 1575, 1620, 1571, 1575, 1621, 1573,
    1608, 1620, 1572, 1610, 1620, 1574, 1729, 1620, 1730, 1746, 1620, 1747,
    1749, 1620, 1728, 2344, 2364, 2345, 2352, 2364, 2353, 2355, 2364, 2356,
    2503, 2494, 2507, 2503, 2519, 2508, 2887, 2878, 2891, 2887, 2902, 2888,
    2887, 2903, 2892, 2962, 3031, 2964, 3014, 3006, 3018, 3014, 3031, 3020,
    3015, 3006, 3019, 3142, 3158, 3144, 3263, 3285, 3264, 3270, 3266, 3274,
    3270, 3285, 3271, 3270, 3286, 3272, 3274, 3285, 3275, 3398, 3390, 3402,
    3398, 3415, 3404, 3399, 3390, 3403, 3545, 3530, 3546, 3545, 3535, 3548,
    3545, 3551, 3550, 3548, 3530, 3549, 4133, 4142, 4134, 6917, 6965, 6918,
    6919, 6965, 6920, 6921, 6965, 6922, 6923, 6965, 6924, 6925, 6965, 6926,
    6929, 6965, 6930, 6970, 6965, 6971, 6972, 6965, 6973, 6974, 6965, 6976,
    6975, 6965, 6977, 6978, 6965, 6979, 7734, 772, 7736, 7735, 772, 7737,
    7770, 772, 7772, 7771, 772, 7773, 7778, 775, 7784, 7779, 775, 7785,
    7840, 770, 7852, 7840, 774, 7862, 7841, 770, 7853, 7841, 774, 7863,
    7864, 770, 7878, 7865, 770, 7879, 7884, 770, 7896, 7885, 770, 7897,
    7936, 768, 7938, 7936, 769, 7940, 7936, 834, 7942, 7936, 837, 8064,
    7937, 768, 7939, 7937, 769, 7941, 7937, 834, 7943, 7937, 837, 8065,
    7938, 837, 8066, 7939, 837, 8067, 7940, 837, 8068, 7941, 837, 8069,
    7942, 837, 8070, 7943, 837, 8071, 7944, 768, 7946, 7944, 769, 7948,
    7944, 834, 7950, 7944, 837, 8072, 7945, 768, 7947, 7945, 769, 7949,
    7945, 834, 7951, 7945, 837, 8073, 7946, 837, 8074, 7947, 837, 8075,
    7948, 837, 8076, 7949, 837, 8077, 7950, 837, 8078, 7951, 837, 8079,
    7952, 768, 7954, 7952, 769, 7956, 7953, 768, 7955, 7953, 769, 7957,
    7960, 768, 7962, 7960, 769, 7964, 7961, 768, 7963, 7961, 769, 7965,
    7968, 768, 7970, 7968, 769, 7972, 7968, 834, 7974, 7968, 837, 8080,
    7969, 768, 7971, 7969, 769, 7973, 7969, 834, 7975, 7969, 837, 8081,
    7970, 837, 8082, 7971, 837, 8083, 7972, 837, 8084, 7973, 837, 8085,
    7974, 837, 8086, 7975, 837, 8087, 7976, 768, 7978, 7976, 769, 7980,
    7976, 834, 7982, 7976, 837, 8088, 7977, 768, 7979, 7977, 769, 7981,
    7977, 834, 7983, 7977, 837, 8089, 7978, 837, 8090, 7979, 837, 8091,
    7980, 837, 8092, 7981, 837, 8093, 7982, 837, 8094, 7983, 837, 8095,
    7984, 768, 7986, 7984, 769, 7988, 7984, 834, 7990, 7985, 768, 7987,
    7985, 769, 7989, 7985, 834, 7991, 7992, 768, 7994, 7992, 769, 7996,
    7992, 834, 7998, 7993, 768, 7995, 7993, 769, 7997, 7993, 834, 7999,
    8000, 768, 8002, 8000, 769, 8004, 8001, 768, 8003, 8001, 769, 8005,
    8008, 768, 8010, 8008, 769, 8012, 8009, 768, 8011, 8009, 769, 8013,
    8016, 768, 8018, 8016, 769, 8020, 8016, 834, 8022, 8017, 768, 8019,
    8017, 769, 8021, 8017, 834, 8023, 8025, 768, 8027, 8025, 769, 8029,
    8025, 834, 8031, 8032, 768, 8034, 8032, 769, 8036, 8032, 834, 8038,
    8032, 837, 8096, 8033, 768, 8035, 8033, 769, 8037, 8033, 834, 8039,
    8033, 837, 8097, 8034, 837, 8098, 8035, 837, 8099, 8036, 837, 8100,
    8037, 837, 8101, 8038, 837, 8102, 8039, 837, 8103, 8040, 768, 8042,
    8040, 769, 8044, 8040, 834, 8046, 8040, 837, 8104, 8041, 768, 8043,
    8041, 769, 8045, 8041, 834, 8047, 8041, 837, 8105, 8042, 837, 8106,
    8043, 837, 8107, 8044, 837, 8108, 8045, 837, 8109, 8046, 837, 8110,
    8047, 837, 8111, 8048, 837, 8114, 8052, 837, 8130, 8060, 837, 8178,
    8118, 837, 8119, 8127, 768, 8141, 8127, 769, 8142, 8127, 834, 8143,
    8134, 837, 8135, 8182, 837, 8183, 8190, 768, 8157, 8190, 769, 8158,
    8190, 834, 8159, 8592, 824, 8602, 8594, 824, 8603, 8596, 824, 8622,
    8656, 824, 8653, 8658, 824, 8655, 8660, 824, 8654, 8707, 824, 8708,
    8712, 824, 8713, 8715, 824, 8716, 8739, 824, 8740, 8741, 824, 8742,
    8764, 824, 8769, 8771, 824, 8772, 8773, 824, 8775, 8776, 824, 8777,
    8781, 824, 8813, 8801, 824, 8802, 8804, 824, 8816, 8805, 824, 8817,
    8818, 824, 8820, 8819, 824, 8821, 8822, 824, 8824, 8823, 824, 8825,
    8826, 824, 8832, 8827, 824, 8833, 8828, 824, 8928, 8829, 824, 8929,
    8834, 824, 8836, 8835, 824, 8837, 8838, 824, 8840, 8839, 824, 8841,
    8849, 824, 8930, 8850, 824, 8931, 8866, 824, 8876, 8872, 824, 8877,
    8873, 824, 8878, 8875, 824, 8879, 8882, 824, 8938, 8883, 824, 8939,
    8884, 824, 8940, 8885, 824, 8941, 12358, 12441, 12436, 12363, 12441, 12364,
    12365, 12441, 12366, 12367, 12441, 12368, 12369, 12441, 12370, 12371, 12441, 12372,
    12373, 12441, 12374, 12375, 12441, 12376, 12377, 12441, 12378, 12379, 12441, 12380,
    12381, 12441, 12382, 12383, 12441, 12384, 12385, 12441, 12386, 12388, 12441, 12389,
    12390, 12441, 12391, 12392, 12441, 12393, 12399, 12441, 12400, 12399, 12442, 12401,
    12402, 12441, 12403, 12402, 12442, 12404, 12405, 12441, 12406, 12405, 12442, 12407,
    12408, 12441, 12409, 12408, 12442, 12410, 12411, 12441, 12412, 12411, 12442, 12413,
    12445, 12441, 12446, 12454, 12441, 12532, 12459, 12441, 12460, 12461, 12441, 12462,
    12463, 12441, 12464, 12465, 12441, 12466, 12467, 12441, 12468, 12469, 12441, 12470,
    12471, 12441, 12472, 12473, 12441, 12474, 12475, 12441, 12476, 12477, 12441, 12478,
    12479, 12441, 12480, 12481, 12441, 12482, 12484, 12441, 12485, 12486, 12441, 12487,
    12488, 12441, 12489, 12495, 12441, 12496, 12495, 12442, 12497, 12498, 12441, 12499,
    12498, 12442, 12500, 12501, 12441, 12502, 12501, 12442, 12503, 12504, 12441, 12505,
    12504, 12442, 12506, 12507, 12441, 12508, 12507, 12442, 12509, 12527, 12441, 12535,
    12528, 12441, 12536, 12529, 12441, 12537, 12530, 12441, 12538, 12541, 12441, 12542,
    69785, 69818, 69786, 69787, 69818, 69788, 69797, 69818, 69803, 69937, 69927, 69934,
    69938, 69927, 69935, 70471, 70462, 70475, 70471, 70487, 70476, 70841, 70832, 70844,
    70841, 70842, 70843, 70841, 70845, 70846, 71096, 71087, 71098, 71097, 71087, 71099,
    71989, 71984, 71992>>

\* The composites of the table that the database 3.2.0 does not know: the
\* normalisation composes them and does not decompose them.
ComposedLater == {6918, 6920, 6922, 6924, 6926, 6930, 6971, 6973, 6976, 6977, 6979, 69786, 69788, 69803, 69934, 69935, 70475, 70476, 70843, 70844, 70846, 71098, 71099, 71992}

\* stringprep table D.1: the characters of bidirectional category R or AL.
RandALCat == <<
    1470, 1470, 1472, 1472, 1475, 1475, 1488, 1514, 1520, 1524, 1563, 1563,
    1567, 1567, 1569, 1594, 1600, 1610, 1645, 1647, 1649, 1749, 1757, 1757,
    1765, 1766, 1786, 1790, 1792, 1805, 1808, 1808, 1810, 1836, 1920, 1957,
    1969, 1969, 8207, 8207, 64285, 64285, 64287, 64296, 64298, 64310, 64312, 64316,
    64318, 64318, 64320, 64321, 64323, 64324, 64326, 64433, 64467, 64829, 64848, 64911,
    64914, 64967, 65008, 65020, 65136, 65140, 65142, 65276>>

\* stringprep table D.2: the characters of bidirectional category L.
LCat == <<
    65, 90, 97, 122, 170, 170, 181, 181, 186, 186, 192, 214,
    216, 246, 248, 544, 546, 563, 592, 685, 688, 696, 699, 705,
    720, 721, 736, 740, 750, 750, 890, 890, 902, 902, 904, 906,
    908, 908, 910, 929, 931, 974, 976, 1013, 1024, 1154, 1162, 1230,
    1232, 1269, 1272, 1273, 1280, 1295, 1329, 1366, 1369, 1375, 1377, 1415,
    1417, 1417, 2307, 2307, 2309, 2361, 2365, 2368, 2377, 2380, 2384, 2384,
    2392, 2401, 2404, 2416, 2434, 2435, 2437, 2444, 2447, 2448, 2451, 2472,
    2474, 2480, 2482, 2482, 2486, 2489, 2494, 2496, 2503, 2504, 2507, 2508,
    2519, 2519, 2524, 2525, 2527, 2529, 2534, 2545, 2548, 2554, 2565, 2570,
    2575, 2576, 2579, 2600, 2602, 2608, 2610, 2611, 2613, 2614, 2616, 2617,
    2622, 2624, 2649, 2652, 2654, 2654, 2662, 2671, 2674, 2676, 2691, 2691,
    2693, 2699, 2701, 2701, 2703, 2705, 2707, 2728, 2730, 2736, 2738, 2739,
    2741, 2745, 2749, 2752, 2761, 2761, 2763, 2764, 2768, 2768, 2784, 2784,
    2790, 2799, 2818, 2819, 2821, 2828, 2831, 2832, 2835, 2856, 2858, 2864,
    2866, 2867, 2870, 2873, 2877, 2878, 2880, 2880, 2887, 2888, 2891, 2892,
    2903, 2903, 2908, 2909, 2911, 2913, 2918, 2928, 2947, 2947, 2949, 2954,
    2958, 2960, 2962, 2965, 2969, 2970, 2972, 2972, 2974, 2975, 2979, 2980,
    2984, 2986, 2990, 2997, 2999, 3001, 3006, 3007, 3009, 3010, 3014, 3016,
    3018, 3020, 3031, 3031, 3047, 3058, 3073, 3075, 3077, 3084, 3086, 3088,
    3090, 3112, 3114, 3123, 3125, 3129, 3137, 3140, 3168, 3169, 3174, 3183,
    3202, 3203, 3205, 3212, 3214, 3216, 3218, 3240, 3242, 3251, 3253, 3257,
    3262, 3262, 3264, 3268, 3271, 3272, 3274, 3275, 3285, 3286, 3294, 3294,
    3296, 3297, 3302, 3311, 3330, 3331, 3333, 3340, 3342, 3344, 3346, 3368,
    3370, 3385, 3390, 3392, 3398, 3400, 3402, 3404, 3415, 3415, 3424, 3425,
    3430, 3439, 3458, 3459, 3461, 3478, 3482, 3505, 3507, 3515, 3517, 3517,
    3520, 3526, 3535, 3537, 3544, 3551, 3570, 3572, 3585, 3632, 3634, 3635,
    3648, 3654, 3663, 3675, 3713, 3714, 3716, 3716, 3719, 3720, 3722, 3722,
    3725, 3725, 3732, 3735, 3737, 3743, 3745, 3747, 3749, 3749, 3751, 3751,
    3754, 3755, 3757, 3760, 3762, 3763, 3773, 3773, 3776, 3780, 3782, 3782,
    3792, 3801, 3804, 3805, 3840, 3863, 3866, 3892, 3894, 3894, 3896, 3896,
    3902, 3911, 3913, 3946, 3967, 3967, 3973, 3973, 3976, 3979, 4030, 4037,
    4039, 4044, 4047, 4047, 4096, 4129, 4131, 4135, 4137, 4138, 4140, 4140,
    4145, 4145, 4152, 4152, 4160, 4183, 4256, 4293, 4304, 4344, 4347, 4347,
    4352, 4441, 4447, 4514, 4520, 4601, 4608, 4614, 4616, 4678, 4680, 4680,
    4682, 4685, 4688, 4694, 4696, 4696, 4698, 4701, 4704, 4742, 4744, 4744,
    4746, 4749, 4752, 4782, 4784, 4784, 4786, 4789, 4792, 4798, 4800, 4800,
    4802, 4805, 4808, 4814, 4816, 4822, 4824, 4846, 4848, 4878, 4880, 4880,
    4882, 4885, 4888, 4894, 4896, 4934, 4936, 4954, 4961, 4988, 5024, 5108,
    5121, 5750, 5761, 5786, 5792, 5872, 5888, 5900, 5902, 5905, 5920, 5937,
    5941, 5942, 5952, 5969, 5984, 5996, 5998, 6000, 6016, 6070, 6078, 6085,
    6087, 6088, 6100, 6106, 6108, 6108, 6112, 6121, 6160, 6169, 6176, 6263,
    6272, 6312, 7680, 7835, 7840, 7929, 7936, 7957, 7960, 7965, 7968, 8005,
    8008, 8013, 8016, 8023, 8025, 8025, 8027, 8027, 8029, 8029, 8031, 8061,
    8064, 8116, 8118, 8124, 8126, 8126, 8130, 8132, 8134, 8140, 8144, 8147,
    8150, 8155, 8160, 8172, 8178, 8180, 8182, 8188, 8206, 8206, 8305, 8305,
    8319, 8319, 8450, 8450, 8455, 8455, 8458, 8467, 8469, 8469, 8473, 8477,
    8484, 8484, 8486, 8486, 8488, 8488, 8490, 8493, 8495, 8497, 8499, 8505,
    8509, 8511, 8517, 8521, 8544, 8579, 9014, 9082, 9109, 9109, 9372, 9449,
    12293, 12295, 12321, 12329, 12337, 12341, 12344, 12348, 12353, 12438, 12445, 12447,
    12449, 12538, 12540, 12543, 12549, 12588, 12593, 12686, 12688, 12727, 12784, 12828,
    12832, 12867, 12896, 12923, 12927, 12976, 12992, 13003, 13008, 13054, 13056, 13174,
    13179, 13277, 13280, 13310, 13312, 19893, 19968, 40869, 40960, 42124, 44032, 55203,
    55296, 64045, 64048, 64106, 64256, 64262, 64275, 64279, 65313, 65338, 65345, 65370,
    65382, 65470, 65474, 65479, 65482, 65487, 65490, 65495, 65498, 65500, 66304, 66334,
    66336, 66339, 66352, 66378, 66560, 66597, 66600, 66637, 118784, 119029, 119040, 119078,
    119082, 119142, 119146, 119154, 119171, 119172, 119180, 119209, 119214, 119261, 119808, 119892,
    119894, 119964, 119966, 119967, 119970, 119970, 119973, 119974, 119977, 119980, 119982, 119993,
    119995, 119995, 119997, 120000, 120002, 120003, 120005, 120069, 120071, 120074, 120077, 120084,
    120086, 120092, 120094, 120121, 120123, 120126, 120128, 120132, 120134, 120134, 120138, 120144,
    120146, 120483, 120488, 120777, 131072, 173782, 194560, 195101, 983040, 1048573, 1048576, 1114109>>

\* The code points of NameprepChanges that nameprep leaves alone on Python 2.7:
\* its case mapping falls back on the interpreter's own lower(), and the
\* database 5.2.0 of that interpreter has no lower case for them.
NameprepChangesNew == <<
    895, 895, 1318, 1318, 1320, 1320, 1322, 1322, 1324, 1324, 1326, 1326,
    4295, 4295, 4301, 4301, 5024, 5109, 7312, 7354, 7357, 7359, 11311, 11311,
    11506, 11506, 42592, 42592, 42648, 42648, 42650, 42650, 42893, 42893, 42896, 42896,
    42898, 42898, 42902, 42902, 42904, 42904, 42906, 42906, 42908, 42908, 42910, 42910,
    42912, 42912, 42914, 42914, 42916, 42916, 42918, 42918, 42920, 42920, 42922, 42926,
    42928, 42932, 42934, 42934, 42936, 42936, 42938, 42938, 42940, 42940, 42942, 42942,
    42944, 42944, 42946, 42946, 42948, 42951, 42953, 42953, 42960, 42960, 42966, 42966,
    42968, 42968, 42997, 42997, 66736, 66771, 66928, 66938, 66940, 66954, 66956, 66962,
    66964, 66965, 68736, 68786, 71840, 71871, 93760, 93791, 125184, 125217>>

\* The code points of CombiningClass that the database 5.2.0 of Python 2.7
\* does not know: their class is 0 there.
CombiningClassNew == <<
    1631, 1631, 2045, 2045, 2137, 2139, 2200, 2207, 2250, 2273, 2275, 2303,
    2558, 2558, 3132, 3132, 3387, 3388, 3770, 3770, 4957, 4958, 5909, 5909,
    6832, 6845, 6847, 6862, 7083, 7083, 7142, 7142, 7154, 7155, 7412, 7412,
    7416, 7417, 7655, 7676, 11647, 11647, 42612, 42619, 42654, 42655, 43052, 43052,
    43766, 43766, 65063, 65071, 66272, 66272, 66422, 66426, 68325, 68326, 68900, 68903,
    69291, 69292, 69446, 69456, 69506, 69509, 69702, 69702, 69744, 69744, 69759, 69759,
    69888, 69890, 69939, 69940, 70003, 70003, 70080, 70080, 70090, 70090, 70197, 70198,
    70377, 70378, 70459, 70460, 70477, 70477, 70502, 70508, 70512, 70516, 70722, 70722,
    70726, 70726, 70750, 70750, 70850, 70851, 71103, 71104, 71231, 71231, 71350, 71351,
    71467, 71467, 71737, 71738, 71997, 71998, 72003, 72003, 72160, 72160, 72244, 72244,
    72263, 72263, 72345, 72345, 72767, 72767, 73026, 73026, 73028, 73029, 73111, 73111,
    92912, 92916, 92976, 92982, 94192, 94193, 113822, 113822, 122880, 122886, 122888, 122904,
    122907, 122913, 122915, 122916, 122918, 122922, 123184, 123190, 123566, 123566, 123628, 123631,
    125136, 125142, 125252, 125258>>

\* The composites of Compositions that the database 5.2.0 of Python 2.7 does
\* not know: their pairs do not compose there.
CompositionsNew == {69934, 69935, 70475, 70476, 70843, 70844, 70846, 71098, 71099, 71992}

\* The indices of the entries of a table of three columns.
Triples(table) == 1..(Len(table) \div 3)

\* unicodedata.combining(c) in the database of the interpreter.
Combining(c) ==
    IF ~PY3 /\ InRanges(c, CombiningClassNew) THEN 0
    ELSE IF \E i \in Triples(CombiningClass) :
                 CombiningClass[3 * i - 2] <= c /\ c <= CombiningClass[3 * i - 1]
    THEN CombiningClass[3 * CHOOSE i \in Triples(CombiningClass) :
                 CombiningClass[3 * i - 2] <= c /\ c <= CombiningClass[3 * i - 1]]
    ELSE 0

\* A precomposed Hangul syllable, U+AC00..U+D7A3.
IsHangulSyllable(c) == c >= 44032 /\ c < 44032 + 11172

RECURSIVE Decompose(_)
\* The full canonical decomposition of a character nameprep keeps: a Hangul
\* syllable into its jamo by arithmetic, a composite of the table into its
\* decomposed first part and its second part.
Decompose(c) ==
    IF IsHangulSyllable(c) THEN
        LET si == c - 44032
            lv == <<4352 + (si \div 588), 4449 + ((si % 588) \div 28)>>
        IN  IF si % 28 = 0 THEN lv ELSE Append(lv, 4519 + (si % 28))
    ELSE IF /\ c \notin ComposedLater
            /\ \E i \in Triples(Compositions) : Compositions[3 * i] = c
    THEN LET i == CHOOSE i \in Triples(Compositions) : Compositions[3 * i] = c
         IN  Append(Decompose(Compositions[3 * i - 2]), Compositions[3 * i - 1])
    ELSE <<c>>

\* The canonical ordering of a decomposed text: within every run of
\* characters of non-zero combining class, a stable sort by class.
CanonicalOrder(d) ==
    LET cc == [i \in 1..Len(d) |-> Combining(d[i])]
        starters == {i \in 1..Len(d) : cc[i] = 0}
        first(i) == IF \E q \in starters : q < i
                    THEN 1 + CHOOSE q \in starters :
                             q < i /\ \A x \in starters : x < i => x <= q
                    ELSE 1
        last(i) == IF \E q \in starters : q > i
                   THEN (CHOOSE q \in starters :
                             q > i /\ \A x \in starters : x > i => x >= q) - 1
                   ELSE Len(d)
        place(i) == IF cc[i] = 0 THEN i
                    ELSE first(i) + Cardinality({q \in first(i)..last(i) :
                             \/ cc[q] < cc[i]
                             \/ cc[q] = cc[i] /\ q < i})
    IN  [k \in 1..Len(d) |-> d[CHOOSE i \in 1..Len(d) : place(i) = k]]

\* The character two characters compose to, or 0: a leading and a vowel jamo,
\* a Hangul syllable without a trailing jamo and a trailing jamo, or a pair of
\* the table.
Composite(a, b) ==
    IF a >= 4352 /\ a < 4352 + 19 /\ b >= 4449 /\ b < 4449 + 21
    THEN 44032 + ((a - 4352) * 21 + (b - 4449)) * 28
    ELSE IF IsHangulSyllable(a) /\ (a - 44032) % 28 = 0 /\ b > 4519 /\ b < 4519 + 28
    THEN a + (b - 4519)
    ELSE IF \E i \in Triples(Compositions) :
                 /\ Compositions[3 * i - 2] = a /\ Compositions[3 * i - 1] = b
                 /\ (PY3 \/ Compositions[3 * i] \notin CompositionsNew)
    THEN Compositions[3 * CHOOSE i \in Triples(Compositions) :
                 Compositions[3 * i - 2] = a /\ Compositions[3 * i - 1] = b]
    ELSE 0

RECURSIVE ComposeFrom(_, _, _, _, _)
\* The canonical composition of d from index i, with the output so far, the
\* index in it of the last starter (0 for none) and the combining class of
\* the last character put out: a character composes with the starter unless
\* a character of the same or a higher class, or another starter, lies
\* between them.
ComposeFrom(d, i, out, starter, lastcc) ==
    IF i > Len(d) THEN out
    ELSE LET c == d[i]
             k == Combining(c)
             blocked == starter = 0 \/ (Len(out) # starter /\ lastcc >= k)
             comp == IF blocked THEN 0 ELSE Composite(out[starter], c)
         IN  IF comp # 0
             THEN ComposeFrom(d, i + 1, [out EXCEPT ![starter] = comp],
                              starter, lastcc)
             ELSE ComposeFrom(d, i + 1, Append(out, c),
                              IF k = 0 THEN Len(out) + 1 ELSE starter, k)

\* unicodedata.ucd_3_2_0.normalize("NFKC", s) for a text of characters that
\* have no compatibility mapping: decompose, order, compose.
Normalize(s) ==
    ComposeFrom(CanonicalOrder(Concat([i \in 1..Len(s) |-> Decompose(s[i])])),
                1, <<>>, 0, 0)

\* encodings.idna.nameprep(label), for the label ToUnicode has decoded: the
\* prepared label when it is the label itself up to the case of its ASCII
\* letters, and Failed when nameprep raises or prepares another text.  The
\* second case needs no more detail: ToUnicode encodes the prepared text and
\* compares it with the label it decoded, punycode decodes only one text
\* from a label, and so every other prepared text fails the comparison as
\* well.  The prepared label is the label itself when the mapping and the
\* prohibitions leave every character alone, the normalisation leaves the
\* text alone, and a text with a right-to-left character holds no
\* left-to-right character and starts and ends with a right-to-left one.
nameprep(label) ==
    LET low == AsciiLower(label)
        rtl(c) == InRanges(c, RandALCat)
        changes(c) == /\ InRanges(c, NameprepChanges)
                      /\ (PY3 \/ ~InRanges(c, NameprepChangesNew))
    IN  IF \E k \in 1..Len(label) : changes(label[k])
        THEN Failed
        ELSE IF Normalize(low) # low THEN Failed
        ELSE IF /\ \E k \in 1..Len(low) : rtl(low[k])
                /\ \/ \E k \in 1..Len(low) : InRanges(low[k], LCat)
                   \/ ~rtl(low[1])
                   \/ ~rtl(low[Len(low)])
        THEN Failed
        ELSE low

\* The check of ToASCII that a label has 1 to 63 bytes: the label, or Failed.
SizedLabel(label) ==
    IF 0 < Len(label) /\ Len(label) < 64 THEN label ELSE Failed

\* encodings.idna.ToASCII(label) from its step 2 on, with what nameprep
\* returned for the label.
ToASCIIPrepared(prepared) ==
    IF prepared = Failed THEN Failed
    ELSE IF IsAscii(prepared) THEN SizedLabel(prepared)
    ELSE IF StartsWith(prepared, AcePrefix) THEN Failed
    ELSE SizedLabel(AcePrefix \o punycode_encode(prepared))

\* encodings.idna.ToASCII(label): the label as ASCII bytes, or Failed.
ToASCII(label) ==
    IF IsAscii(label) THEN SizedLabel(label)
    ELSE ToASCIIPrepared(nameprep(label))

\* encodings.idna.ToUnicode(label) from its step 5 on, with what
\* punycode_decode returned for the label without its prefix.  A label of 64
\* bytes or more that decodes fails later on: what ToASCII returns is
\* shorter, and has to equal it.  No label equals Failed.
ToUnicodeDecoded(label, result) ==
    IF result = IndexFailed THEN "IndexError"
    ELSE IF result = Failed THEN "UnicodeError"
    ELSE IF Len(label) >= 64 THEN "UnicodeError"
    ELSE IF AsciiLower(label) = ToASCII(result) THEN "ok"
    ELSE "UnicodeError"

\* encodings.idna.ToUnicode(label): "ok", or the error it raises.
ToUnicode(label) ==
    IF ~IsAscii(label) THEN "UnicodeError"
    ELSE IF ~StartsWith(label, AcePrefix) THEN "ok"
    ELSE ToUnicodeDecoded(label, punycode_decode(SubSeq(label, 5, Len(label))))

\* The error of the first label that does not decode, "ok" when all do: the
\* loop of Codec.decode stops at the first error.
FirstError(kinds) ==
    IF \A k \in 1..Len(kinds) : kinds[k] = "ok" THEN "ok"
    ELSE kinds[CHOOSE k \in 1..Len(kinds) :
                   kinds[k] # "ok" /\ \A x \in 1..(k - 1) : kinds[x] = "ok"]

\* host.decode("idna"): "ok", or the error of the first label between the
\* dots that does not decode.  Python 2 decodes the whole host as ASCII
\* before it looks at the labels.
IdnaDecode(h) ==
    IF ~IsAscii(h) THEN "UnicodeError"
    ELSE FirstError([k \in 1..Len(Split(h, DOT)) |-> ToUnicode(Split(h, DOT)[k])])

\* host[-1] == b".": on Python 3 host[-1] is an int, which equals no bytes
\* object; on Python 2 it is the last character.
LastIsDot(h) == IF PY3 THEN FALSE ELSE h[Len(h)] = DOT

\* is_valid_host(host) after host.decode("idna"), with the outcome of the
\* decoding: an IndexError out of the codec is not caught.
HostDecoded(h, decoding) ==
    IF decoding = "IndexError" THEN Raise("IndexError")
    ELSE IF decoding = "UnicodeError" THEN Ok(FALSE)
    ELSE IF Len(h) > HostMax THEN Ok(FALSE)
    ELSE IF Len(h) = 0 THEN Raise("IndexError")
    ELSE LET h2 == IF LastIsDot(h) THEN Slice(h, 0, -1) ELSE h
             labels == Split(h2, DOT)
         IN  Ok(\A k \in 1..Len(labels) : LabelValid(labels[k]))

\* is_valid_host(host)
is_valid_host(h) == HostDecoded(h, IdnaDecode(h))

\* The bytes short hosts are built from: '-', '.', '1', 'a', 'Z', newline and
\* the non-ASCII byte 0xe9.
HostAlphabet == {HYPHEN, DOT, 49, 97, 90, LF, 233}

\* The label lengths of the long hosts.
LabelLens == {1, 62, 63, 64}

\* The host whose labels are runs of 'a' of the lengths lens, with a dot after
\* the last one when trailing holds.
LongHost(lens, trailing) ==
    Join(<<DOT>>, [k \in 1..Len(lens) |-> [j \in 1..lens[k] |-> 97]])
    \o (IF trailing THEN <<DOT>> ELSE <<>>)

\* Hosts with a label in ASCII-compatible encoding, of every way the codec
\* takes or refuses one, on both interpreters where nothing else is said.
AceHosts == {
    \* xn--!: an invalid digit at the end;
    \* does not decode on Python 3, raises IndexError on Python 2
    <<120, 110, 45, 45, 33>>,
    \* a.xn--9ca~: e-acute and an invalid digit at the end;
    \* does not decode on Python 3, raises IndexError on Python 2
    <<97, 46, 120, 110, 45, 45, 57, 99, 97, 126>>,
    \* xn--!a: an invalid digit before the end;
    \* does not decode on Python 3, does not decode on Python 2
    <<120, 110, 45, 45, 33, 97>>,
    \* xn--58d: U+13A0, which has a lower case since Unicode 8.0;
    \* does not decode on Python 3, decodes on Python 2
    <<120, 110, 45, 45, 53, 56, 100>>,
    \* xn--q-xbb00x: q, a mark of class 230 and U+065F, of class 220 since
    \* Unicode 6.0;
    \* does not decode on Python 3, decodes on Python 2
    <<120, 110, 45, 45, 113, 45, 120, 98, 98, 48, 48, 120>>,
    \* xn--j80dta: a pair that composes since Unicode 6.1;
    \* does not decode on Python 3, decodes on Python 2
    <<120, 110, 45, 45, 106, 56, 48, 100, 116, 97>>,
    \* xn--a: U+0080, a control character nameprep prohibits; does not decode
    <<120, 110, 45, 45, 97>>,
    \* xn--: the bare prefix; does not decode
    <<120, 110, 45, 45>>,
    \* xn--mga: U+00C0, which nameprep maps to lower case; does not decode
    <<120, 110, 45, 45, 109, 103, 97>>,
    \* a.xn--mga: the same after a plain label; does not decode
    <<97, 46, 120, 110, 45, 45, 109, 103, 97>>,
    \* xn--a.: an undecodable label and a trailing dot; does not decode
    <<120, 110, 45, 45, 97, 46>>,
    \* xn--bcher-kva: b, u-umlaut, c, h, e, r; decodes
    <<120, 110, 45, 45, 98, 99, 104, 101, 114, 45, 107, 118, 97>>,
    \* xn--bcher-kva.: the same and a trailing dot; decodes
    <<120, 110, 45, 45, 98, 99, 104, 101, 114, 45, 107, 118, 97, 46>>,
    \* xn--Bcher-kva: the same with a capital B; decodes
    <<120, 110, 45, 45, 66, 99, 104, 101, 114, 45, 107, 118, 97>>,
    \* XN--bcher-kva: a capital prefix: a plain label for the codec; decodes
    <<88, 78, 45, 45, 98, 99, 104, 101, 114, 45, 107, 118, 97>>,
    \* xn--bcher-kv: the same cut short; does not decode
    <<120, 110, 45, 45, 98, 99, 104, 101, 114, 45, 107, 118>>,
    \* xn--e1afmkfd: Cyrillic letters; decodes
    <<120, 110, 45, 45, 101, 49, 97, 102, 109, 107, 102, 100>>,
    \* xn--4dbrk0ce: Hebrew letters, right to left; decodes
    <<120, 110, 45, 45, 52, 100, 98, 114, 107, 48, 99, 101>>,
    \* xn--a-0hc0an2df: a left-to-right letter before the Hebrew ones; does not decode
    <<120, 110, 45, 45, 97, 45, 48, 104, 99, 48, 97, 110, 50, 100, 102>>,
    \* xn--9ca: e-acute; decodes
    <<120, 110, 45, 45, 57, 99, 97>>,
    \* xn--e-xbb: e and a combining acute, which compose; does not decode
    <<120, 110, 45, 45, 101, 45, 120, 98, 98>>,
    \* xn--q-xbb5h: q and marks of classes 220 and 230, in order; decodes
    <<120, 110, 45, 45, 113, 45, 120, 98, 98, 53, 104>>,
    \* xn--q-xbb6h: the same marks out of order; does not decode
    <<120, 110, 45, 45, 113, 45, 120, 98, 98, 54, 104>>,
    \* xn--6q8b: a Hangul syllable; decodes
    <<120, 110, 45, 45, 54, 113, 56, 98>>,
    \* xn--hqd2n: a leading and a vowel jamo, which compose; does not decode
    <<120, 110, 45, 45, 104, 113, 100, 50, 110>>,
    \* xn--8sf4g: a pair that composes since Unicode 5.0; does not decode
    <<120, 110, 45, 45, 56, 115, 102, 52, 103>>,
    \* xn--aaaa...a-u3e: 55 a and e-acute: 63 bytes; decodes
    AcePrefix \o [k \in 1..54 |-> 97] \o <<97, 45, 117, 51, 101>>,
    \* xn--aaaa...a-v6e: 56 a and e-acute: 64 bytes; does not decode
    AcePrefix \o [k \in 1..55 |-> 97] \o <<97, 45, 118, 54, 101>>}

HostInputs ==
    SeqsUpTo(HostAlphabet, MaxHostLen)
    \cup {LongHost(lens, t) :
            lens \in UNION {[1..n -> LabelLens] : n \in 1..MaxLabels},
            t \in BOOLEAN}
    \cup AceHosts

InitHost ==
    /\ PY3 \in BOOLEAN
    /\ host \in HostInputs
    /\ hostRes = NoResult
    /\ CodecIdle /\ CleanIdle /\ HexIdle /\ BidiIdle

\* A call is_valid_host(host).
ValidateHost ==
    /\ hostRes = NoResult
    /\ hostRes' = is_valid_host(host)
    /\ UNCHANGED <<PY3, host, codecVars, cleanVars, hexVars, bidiVars>>

NextHost == ValidateHost

SpecHost == InitHost /\ [][NextHost]_vars

\* The label pattern as the specification words it: 1 to 63 letters, digits
\* and hyphens, the first and the last not a hyphen.
WellFormedLabel(x) ==
    /\ Len(x) >= 1 /\ Len(x) <= 63
    /\ \A k \in 1..Len(x) : InLabelClass(x[k])
    /\ x[1] # HYPHEN /\ x[Len(x)] # HYPHEN

\* C9: is_valid_host(h + b".") is True for every non-empty host h of at most
\* 254 bytes whose labels are all well formed (one trailing dot is stripped
\* before the labels are checked), and is_valid_host is False for a host with
\* a label that starts or ends with a hyphen.
C9_TrailingDotStripped ==
    hostRes.kind # "none" =>
        /\ (/\ Len(host) >= 2 /\ Len(host) <= 255
            /\ host[Len(host)] = DOT
            /\ LET labels == Split(Slice(host, 0, -1), DOT)
               IN  \A k \in 1..Len(labels) : WellFormedLabel(labels[k]))
           => hostRes = Ok(TRUE)
        /\ (/\ Len(host) >= 1
            /\ LET labels == Split(host, DOT)
               IN  \E k \in 1..Len(labels) :
                      /\ labels[k] # <<>>
                      /\ \/ labels[k][1] = HYPHEN
                         \/ labels[k][Len(labels[k])] = HYPHEN)
           => hostRes = Ok(FALSE)

(***************************************************************************)
(* BiDi                                                                    *)
(***************************************************************************)

\* A dict is a function on its keys; the empty dict is <<>>.
DictSet(d, k, v) == [x \in (DOMAIN d) \cup {k} |-> IF x = k THEN v ELSE d[x]]

RECURSIVE ValuesOf(_, _)
\* The loop of __init__ over kwargs.items(): self.values[v] = k for each
\* pair, a later pair replacing an earlier one with the same value.
ValuesOf(kw, d) ==
    IF kw = <<>> THEN d
    ELSE ValuesOf(Tail(kw), DictSet(d, Head(kw)[2], Head(kw)[1]))

\* The dict kwargs of a call BiDi(k1=v1, ...), given as its pairs in order.
NamesOf(kw) ==
    [k \in {kw[i][1] : i \in 1..Len(kw)} |->
        kw[CHOOSE i \in 1..Len(kw) : kw[i][1] = k][2]]

BiDi_init_nocheck(kw) ==
    Ok([names |-> NamesOf(kw), values |-> ValuesOf(kw, <<>>)])

\* BiDi.__init__(self, **kwargs): the object, or the ValueError it raises.
BiDi_init(kw) ==
    LET names == NamesOf(kw)
        values == ValuesOf(kw, <<>>)
    IN  IF Cardinality(DOMAIN names) # Cardinality(DOMAIN values)
        THEN Raise("ValueError")
        ELSE Ok([names |-> names, values |-> values])

\* BiDi.__getattr__(self, k)
BiDi_getattr(self, k) ==
    IF k \in DOMAIN self.names THEN Ok(self.names[k]) ELSE Raise("AttributeError")

\* BiDi.get_name(self, n, default)
get_name(self, n, default) ==
    IF n \in DOMAIN self.values THEN self.values[n] ELSE default

NameList == <<"a", "b", "c", "d", "e">>
Names == {NameList[i] : i \in 1..MaxNames}
Values == 1..MaxValue

\* The argument lists BiDi(...) can be called with: pairs of a name and a
\* value, no name twice, in any order.
KwargsInputs ==
    {kw \in UNION {[1..n -> Names \X Values] : n \in 0..MaxNames} :
        \A i, j \in 1..Len(kw) : i # j => kw[i][1] # kw[j][1]}

InitBidi ==
    /\ PY3 = TRUE
    /\ kwargs \in KwargsInputs
    /\ bidi = NoResult
    /\ lookup = NoResult
    /\ CodecIdle /\ CleanIdle /\ HexIdle /\ HostIdle

\* The call BiDi(**kwargs).
Construct ==
    /\ bidi = NoResult
    /\ bidi' = BiDi_init(kwargs)
    /\ UNCHANGED <<PY3, kwargs, lookup, codecVars, cleanVars, hexVars, hostVars>>

\* A call get_name(n, default) on the constructed object; None is "None".
GetName ==
    /\ bidi.kind = "ok"
    /\ \E n \in 1..(MaxValue + 1), default \in {"None", "?"} :
          lookup' = [kind |-> "get_name", n |-> n, default |-> default,
                     result |-> get_name(bidi.val, n, default)]
    /\ UNCHANGED <<PY3, kwargs, bidi, codecVars, cleanVars, hexVars, hostVars>>

\* An attribute access on the constructed object.
GetAttr ==
    /\ bidi.kind = "ok"
    /\ \E k \in Names :
          lookup' = [kind |-> "getattr", k |-> k,
                     result |-> BiDi_getattr(bidi.val, k)]
    /\ UNCHANGED <<PY3, kwargs, bidi, codecVars, cleanVars, hexVars, hostVars>>

NextBidi == Construct \/ GetName \/ GetAttr

SpecBidi == InitBidi /\ [][NextBidi]_vars

\* Two distinct names of kwargs are given the same value.
DuplicateValue(kw) ==
    \E i, j \in 1..Len(kw) : i # j /\ kw[i][2] = kw[j][2]

\* C10: BiDi(...) raises ValueError exactly when two distinct names are given
\* the same value; otherwise it constructs, get_name(value of k) is k for
\* every name k, and get_name of a value no name has returns the default.
C10_BiDi ==
    /\ bidi.kind # "none" =>
          /\ bidi.kind = "ValueError" <=> DuplicateValue(kwargs)
          /\ bidi.kind = "ok" <=> ~DuplicateValue(kwargs)
    /\ bidi.kind = "ok" =>
          \A i \in 1..Len(kwargs) :
              get_name(bidi.val, kwargs[i][2], "None") = kwargs[i][1]
    /\ lookup.kind = "get_name" =>
          IF \E i \in 1..Len(kwargs) : kwargs[i][2] = lookup.n
          THEN \E i \in 1..Len(kwargs) :
                  kwargs[i][2] = lookup.n /\ lookup.result = kwargs[i][1]
          ELSE lookup.result = lookup.default

\* C10 witness: an object with two names was constructed, and get_name of a
\* value that no name has returned the default given.
C10_Witness ==
    /\ bidi.kind = "ok" /\ Len(kwargs) = 2
    /\ lookup.kind = "get_name" /\ lookup.default = "?"
    /\ \A i \in 1..Len(kwargs) : kwargs[i][2] # lookup.n
    /\ lookup.result = "?"

====
